---- MODULE Spec2Model ----
(***************************************************************************)
(* A model of macon: the zip crate's archive parser and bit-clearing       *)
(* transform (src/zip/src), and the content-addressed upsert pipeline of   *)
(* the focused-graph family creators (src/macon/src, src/cag/src).         *)
(*                                                                         *)
(* Byte buffers are sequences of integers 0..255 (index 1 is offset 0).    *)
(* A fallible Rust function returns a record [st, val, msg]: st = "ok"     *)
(* with the value, st = "err" for an Err(..) return, st = "panic" for an   *)
(* out-of-range slice or a failed assertion, which unwinds the caller.     *)
(***************************************************************************)
EXTENDS Integers, Sequences, FiniteSets, TLC

(***************************************************************************)
(* Results                                                                 *)
(***************************************************************************)
Ok(v) == [st |-> "ok", val |-> v, msg |-> ""]

Err(m) == [st |-> "err", val |-> <<>>, msg |-> m]

Panic == [st |-> "panic", val |-> <<>>, msg |-> "range end index out of range"]

NoResult == [st |-> "none", val |-> <<>>, msg |-> ""]

(***************************************************************************)
(* Little-endian integers and slices                                       *)
(***************************************************************************)
RECURSIVE from_le_bytes(_)
\* uN::from_le_bytes: the first byte is the least significant.
from_le_bytes(bytes) ==
    IF bytes = <<>> THEN 0 ELSE Head(bytes) + 256 * from_le_bytes(Tail(bytes))

\* u32::from_le_bytes.  TLC's integers are 32 bits wide and signed, so a
\* u32 of 2^31 or more is held as its two's complement (v - 2^32); to_le_bytes
\* gives back the same four bytes and as_usize restores its size.
u32_from_le_bytes(bytes) ==
    IF bytes[4] >= 128 THEN from_le_bytes([bytes EXCEPT ![4] = @ - 256])
    ELSE from_le_bytes(bytes)

\* `v as usize` of a u32: a value of 2^31 or more lies beyond every buffer of
\* the model, and so does every sum of two of them.
as_usize(v) == IF v < 0 THEN 536870912 ELSE v

RECURSIVE to_le_bytes(_, _)
\* uN::to_le_bytes for a width of n bytes.
to_le_bytes(v, n) ==
    IF n = 0 THEN <<>> ELSE <<v % 256>> \o to_le_bytes(v \div 256, n - 1)

\* value[a..b] for 0 <= a <= b <= value.len()
Slice(value, a, b) == SubSeq(value, a + 1, b)

\* value[a..]
SliceFrom(value, a) == SubSeq(value, a + 1, Len(value))

\* the field read u16/u32::from_le_bytes(value[a..b].try_into()?)
Field(value, a, b) ==
    IF b - a = 4 THEN u32_from_le_bytes(Slice(value, a, b))
    ELSE from_le_bytes(Slice(value, a, b))

RECURSIVE Flatten(_)
\* vec![..].into_iter().flatten().collect()
Flatten(parts) ==
    IF parts = <<>> THEN <<>> ELSE Head(parts) \o Flatten(Tail(parts))

\* x & !(1 << 3)
ClearBit3(x) == IF (x \div 8) % 2 = 1 THEN x - 8 ELSE x

\* x & (1 << 3) != 0
Bit3(x) == (x \div 8) % 2 = 1

(***************************************************************************)
(* std::str::from_utf8: the well-formed byte sequences of UTF-8            *)
(***************************************************************************)
Cont(b) == b >= 128 /\ b <= 191

RECURSIVE from_utf8_ok(_)
from_utf8_ok(s) ==
    IF s = <<>> THEN TRUE
    ELSE LET b == s[1]
             n == Len(s)
         IN  IF b < 128 THEN from_utf8_ok(Tail(s))
             ELSE IF b >= 194 /\ b <= 223
                  THEN n >= 2 /\ Cont(s[2]) /\ from_utf8_ok(SubSeq(s, 3, n))
             ELSE IF b >= 224 /\ b <= 239
                  THEN /\ n >= 3
                       /\ Cont(s[2]) /\ Cont(s[3])
                       /\ (b = 224 => s[2] >= 160)
                       /\ (b = 237 => s[2] <= 159)
                       /\ from_utf8_ok(SubSeq(s, 4, n))
             ELSE IF b >= 240 /\ b <= 244
                  THEN /\ n >= 4
                       /\ Cont(s[2]) /\ Cont(s[3]) /\ Cont(s[4])
                       /\ (b = 240 => s[2] >= 144)
                       /\ (b = 244 => s[2] <= 143)
                       /\ from_utf8_ok(SubSeq(s, 5, n))
             ELSE FALSE

(***************************************************************************)
(* Rust's `?` and `let`                                                    *)
(***************************************************************************)
\* let x = r?; Op(x): an Err return (and an unwinding panic) ends the caller
Bind(r, Op(_)) == IF r.st # "ok" THEN r ELSE Op(r.val)

\* let x = v; Op(x)
With(v, Op(_)) == Op(v)

With2(v, w, Op(_, _)) == Op(v, w)

(***************************************************************************)
(* LocalFileHeader                                                         *)
(***************************************************************************)
LFH_FIXED == 30

LocalFileHeader_len(h) == LFH_FIXED + h.file_name_length + h.extra_field_length

LocalFileHeader_to_bytes(h) ==
    Flatten(<< to_le_bytes(h.signature, 4),
               to_le_bytes(h.version_needed_to_extract, 2),
               to_le_bytes(h.general_purpose, 2),
               to_le_bytes(h.compression_method, 2),
               to_le_bytes(h.last_mod_file_time, 2),
               to_le_bytes(h.last_mod_file_date, 2),
               to_le_bytes(h.crc_32, 4),
               to_le_bytes(h.compressed_size, 4),
               to_le_bytes(h.uncompressed_size, 4),
               to_le_bytes(h.file_name_length, 2),
               to_le_bytes(h.extra_field_length, 2),
               h.file_name,
               h.extra_field >>)

LocalFileHeader_try_from(value) ==
    IF Len(value) < LFH_FIXED THEN Panic
    ELSE With2(30 + Field(value, 26, 28),
               30 + Field(value, 26, 28) + Field(value, 28, 30),
           LAMBDA stop1, stop2:
             IF stop1 > Len(value) THEN Err("invalid file_name_length")
             ELSE IF ~from_utf8_ok(Slice(value, 30, stop1)) THEN Err("Utf8Error")
             ELSE IF stop2 > Len(value) THEN Err("invalid extra_field_length")
             ELSE IF stop2 > stop1 /\ value[stop1 + 1] = 1 THEN Err("zip64")
             ELSE Ok([ signature |-> Field(value, 0, 4),
                       version_needed_to_extract |-> Field(value, 4, 6),
                       general_purpose |-> Field(value, 6, 8),
                       compression_method |-> Field(value, 8, 10),
                       last_mod_file_time |-> Field(value, 10, 12),
                       last_mod_file_date |-> Field(value, 12, 14),
                       crc_32 |-> Field(value, 14, 18),
                       compressed_size |-> Field(value, 18, 22),
                       uncompressed_size |-> Field(value, 22, 26),
                       file_name_length |-> stop1 - 30,
                       extra_field_length |-> stop2 - stop1,
                       file_name |-> Slice(value, 30, stop1),
                       extra_field |-> Slice(value, stop1, stop2) ]))

(***************************************************************************)
(* DataDiscriptor                                                          *)
(***************************************************************************)
DD_MAGIC == 134695760

\* signature: <<>> is None, <<v>> is Some(v)
DataDiscriptor_len(dd) == IF dd.signature # <<>> THEN 16 ELSE 12

DataDiscriptor_to_bytes(dd) ==
    Flatten(<< IF dd.signature # <<>> THEN to_le_bytes(dd.signature[1], 4) ELSE <<>>,
               to_le_bytes(dd.crc_32, 4),
               to_le_bytes(dd.compressed_size, 4),
               to_le_bytes(dd.uncompressed_size, 4) >>)

DataDiscriptor_try_from(value) ==
    IF Len(value) < 4 THEN Panic
    ELSE With(IF Field(value, 0, 4) = DD_MAGIC THEN 4 ELSE 0, LAMBDA start:
           IF Len(value) < start + 12 THEN Panic
           ELSE Ok([ signature |-> IF start = 4 THEN <<Field(value, 0, 4)>> ELSE <<>>,
                     crc_32 |-> Field(value, start, start + 4),
                     compressed_size |-> Field(value, start + 4, start + 8),
                     uncompressed_size |-> Field(value, start + 8, start + 12) ]))

(***************************************************************************)
(* ZipFile                                                                 *)
(***************************************************************************)
\* a ZipFile parser that takes the data's length from the local header
ZipFile_try_from_own_size(value, cdh) ==
    Bind(LocalFileHeader_try_from(value), LAMBDA local_file_header:
      With(LocalFileHeader_len(local_file_header)
           + as_usize(local_file_header.compressed_size), LAMBDA stop:
        IF stop > Len(value) THEN Panic
        ELSE IF Bit3(local_file_header.general_purpose)
        THEN Bind(DataDiscriptor_try_from(SliceFrom(value, stop)), LAMBDA dd:
               Ok([ local_file_header |-> local_file_header,
                    file_data |-> Slice(value, LocalFileHeader_len(local_file_header), stop),
                    data_discriptor |-> <<dd>> ]))
        ELSE Ok([ local_file_header |-> local_file_header,
                  file_data |-> Slice(value, LocalFileHeader_len(local_file_header), stop),
                  data_discriptor |-> <<>> ])))

\* data_discriptor: <<>> is None, <<dd>> is Some(dd)
ZipFile_try_from_with_compressed_size(value, cdh) ==
    Bind(LocalFileHeader_try_from(value), LAMBDA local_file_header:
      With(LocalFileHeader_len(local_file_header) + as_usize(cdh.compressed_size), LAMBDA stop:
        IF stop > Len(value) THEN Panic
        ELSE IF Bit3(local_file_header.general_purpose)
        THEN Bind(DataDiscriptor_try_from(SliceFrom(value, stop)), LAMBDA dd:
               Ok([ local_file_header |-> local_file_header,
                    file_data |-> Slice(value, LocalFileHeader_len(local_file_header), stop),
                    data_discriptor |-> <<dd>> ]))
        ELSE Ok([ local_file_header |-> local_file_header,
                  file_data |-> Slice(value, LocalFileHeader_len(local_file_header), stop),
                  data_discriptor |-> <<>> ])))

ZipFile_to_bytes(zf) ==
    Flatten(<< LocalFileHeader_to_bytes(zf.local_file_header),
               zf.file_data,
               IF zf.data_discriptor # <<>>
               THEN DataDiscriptor_to_bytes(zf.data_discriptor[1]) ELSE <<>> >>)

(***************************************************************************)
(* CDH                                                                     *)
(***************************************************************************)
CDH_FIXED == 46

CDH_len(c) ==
    c.file_name_length + c.extra_field_length + c.file_comment_length + CDH_FIXED

CDH_to_bytes(c) ==
    Flatten(<< to_le_bytes(c.signature, 4),
               to_le_bytes(c.version_made_by, 2),
               to_le_bytes(c.version_needed_to_extract, 2),
               to_le_bytes(c.general_purpose, 2),
               to_le_bytes(c.compression_method, 2),
               to_le_bytes(c.last_mod_file_time, 2),
               to_le_bytes(c.last_mod_file_date, 2),
               to_le_bytes(c.crc_32, 4),
               to_le_bytes(c.compressed_size, 4),
               to_le_bytes(c.uncompressed_size, 4),
               to_le_bytes(c.file_name_length, 2),
               to_le_bytes(c.extra_field_length, 2),
               to_le_bytes(c.file_comment_length, 2),
               to_le_bytes(c.disk_number_start, 2),
               to_le_bytes(c.internal_file_attributes, 2),
               to_le_bytes(c.external_file_attributes, 4),
               to_le_bytes(c.local_header_offset, 4),
               c.file_name,
               c.extra_field,
               c.file_comment >>)

\* the variable part of CDH::try_from: file name, extra field, file comment
CDH_variable(value, stop1, stop2, stop3) ==
    IF stop1 > Len(value) THEN Err("invalid file_name_length")
    ELSE IF ~from_utf8_ok(Slice(value, 46, stop1)) THEN Err("Utf8Error")
    ELSE IF stop2 > Len(value) THEN Err("invalid extra_field_length")
    ELSE IF stop3 > Len(value) THEN Err("invalid extra_field_length")
    ELSE Ok([ signature |-> Field(value, 0, 4),
              version_made_by |-> Field(value, 4, 6),
              version_needed_to_extract |-> Field(value, 6, 8),
              general_purpose |-> Field(value, 8, 10),
              compression_method |-> Field(value, 10, 12),
              last_mod_file_time |-> Field(value, 12, 14),
              last_mod_file_date |-> Field(value, 14, 16),
              crc_32 |-> Field(value, 16, 20),
              compressed_size |-> Field(value, 20, 24),
              uncompressed_size |-> Field(value, 24, 28),
              file_name_length |-> stop1 - 46,
              extra_field_length |-> stop2 - stop1,
              file_comment_length |-> stop3 - stop2,
              disk_number_start |-> Field(value, 34, 36),
              internal_file_attributes |-> Field(value, 36, 38),
              external_file_attributes |-> Field(value, 38, 42),
              local_header_offset |-> Field(value, 42, 46),
              file_name |-> Slice(value, 46, stop1),
              extra_field |-> Slice(value, stop1, stop2),
              file_comment |-> Slice(value, stop2, stop3) ])

CDH_try_from(value) ==
    IF Len(value) < CDH_FIXED THEN Panic
    ELSE CDH_variable(value,
            46 + Field(value, 28, 30),
            46 + Field(value, 28, 30) + Field(value, 30, 32),
            46 + Field(value, 28, 30) + Field(value, 30, 32) + Field(value, 32, 34))

RECURSIVE CDH_get_vec_loop(_, _, _)
\* the while loop of CDH::get_vec_from_bytes
CDH_get_vec_loop(value, pos, cdhs) ==
    IF pos < Len(value)
    THEN Bind(CDH_try_from(SliceFrom(value, pos)), LAMBDA cdh:
           CDH_get_vec_loop(value, pos + CDH_len(cdh), Append(cdhs, cdh)))
    ELSE Ok(cdhs)

CDH_get_vec_from_bytes(value) == CDH_get_vec_loop(value, 0, <<>>)

(***************************************************************************)
(* EOCD                                                                    *)
(***************************************************************************)
U16_MAX == 65535

EOCD_FIXED == 22

EOCD_SIG == <<80, 75, 5, 6>>

EOCD_len(e) == e.comment_length + EOCD_FIXED

EOCD_to_bytes(e) ==
    Flatten(<< to_le_bytes(e.signature, 4),
               to_le_bytes(e.disk_number, 2),
               to_le_bytes(e.central_dir_start_disk, 2),
               to_le_bytes(e.cental_dir_entries_disk, 2),
               to_le_bytes(e.cental_dir_entries_total, 2),
               to_le_bytes(e.central_dir_size, 4),
               to_le_bytes(e.central_dir_offset, 4),
               to_le_bytes(e.comment_length, 2),
               e.comment >>)

\* a scan from the front: the number of windows after the first one that
\* matches
WindowsPosition(value, sig) ==
    With({ p \in 0..(Len(value) - 4) :
             /\ value[Len(value) - 3 - p] = sig[1]
             /\ value[Len(value) - 2 - p] = sig[2]
             /\ value[Len(value) - 1 - p] = sig[3]
             /\ value[Len(value) - p] = sig[4] },
         LAMBDA hits:
           IF hits = {} THEN -1 ELSE CHOOSE p \in hits : \A q \in hits : p >= q)

\* value.windows(4).rev().position(|w| w == sig): the number of windows after
\* the last one that matches; -1 is None.
WindowsRevPosition(value, sig) ==
    With({ p \in 0..(Len(value) - 4) :
             /\ value[Len(value) - 3 - p] = sig[1]
             /\ value[Len(value) - 2 - p] = sig[2]
             /\ value[Len(value) - 1 - p] = sig[3]
             /\ value[Len(value) - p] = sig[4] },
         LAMBDA hits:
           IF hits = {} THEN -1 ELSE CHOOSE p \in hits : \A q \in hits : p <= q)

\* EOCD::try_from once the signature is known to start at offset pos
EOCD_at(value, pos) ==
    IF pos + 22 > Len(value) THEN Panic
    ELSE With(pos + 22 + Field(value, pos + 20, pos + 22), LAMBDA stop:
           IF stop > Len(value) THEN Err("invalid comment_length")
           ELSE Ok([ signature |-> Field(value, pos, pos + 4),
                     disk_number |-> Field(value, pos + 4, pos + 6),
                     central_dir_start_disk |-> Field(value, pos + 6, pos + 8),
                     cental_dir_entries_disk |-> Field(value, pos + 8, pos + 10),
                     cental_dir_entries_total |-> Field(value, pos + 10, pos + 12),
                     central_dir_size |-> Field(value, pos + 12, pos + 16),
                     central_dir_offset |-> Field(value, pos + 16, pos + 20),
                     comment_length |-> stop - (pos + 22),
                     comment |-> Slice(value, pos + 22, stop) ]))

EOCD_try_from(value) ==
    With(WindowsRevPosition(value, EOCD_SIG), LAMBDA rpos:
      IF rpos = -1 THEN Err("EOCD not found")
      ELSE IF rpos >= U16_MAX + 22 THEN Err("EOCD not found")
      ELSE EOCD_at(value, Len(value) - (rpos + 4)))

(***************************************************************************)
(* ZipArchive                                                              *)
(***************************************************************************)
RECURSIVE ZipFilesLoop(_, _, _)
\* the for loop of ZipArchive::try_from over the central directory headers
ZipFilesLoop(value, cdhs, zip_files) ==
    IF cdhs = <<>> THEN Ok(zip_files)
    ELSE IF as_usize(Head(cdhs).local_header_offset) > Len(value) THEN Panic
    ELSE Bind(ZipFile_try_from_with_compressed_size(
                  SliceFrom(value, as_usize(Head(cdhs).local_header_offset)),
                  Head(cdhs)),
              LAMBDA zipfile:
                ZipFilesLoop(value, Tail(cdhs), Append(zip_files, zipfile)))

ZipArchive_try_from(value) ==
    Bind(EOCD_try_from(value), LAMBDA e:
      IF as_usize(e.central_dir_offset) + as_usize(e.central_dir_size) > Len(value)
      THEN Panic
      ELSE Bind(CDH_get_vec_from_bytes(
                    Slice(value, e.central_dir_offset,
                          e.central_dir_offset + e.central_dir_size)),
             LAMBDA cdhs:
               Bind(ZipFilesLoop(value, cdhs, <<>>), LAMBDA zfs:
                  Ok([ zip_files |-> zfs,
                       central_directory_headers |-> cdhs,
                       eocd |-> e ]))))

RECURSIVE ZipFiles_to_bytes(_)
\* zip_files.into_iter().flat_map(|zf| zf.to_bytes())
ZipFiles_to_bytes(zfs) ==
    IF zfs = <<>> THEN <<>> ELSE ZipFile_to_bytes(Head(zfs)) \o ZipFiles_to_bytes(Tail(zfs))

RECURSIVE CDHs_to_bytes(_)
\* central_directory_headers.into_iter().flat_map(|zf| zf.to_bytes())
CDHs_to_bytes(cdhs) ==
    IF cdhs = <<>> THEN <<>> ELSE CDH_to_bytes(Head(cdhs)) \o CDHs_to_bytes(Tail(cdhs))

ZipArchive_to_bytes(a) ==
    Flatten(<< ZipFiles_to_bytes(a.zip_files),
               CDHs_to_bytes(a.central_directory_headers),
               EOCD_to_bytes(a.eocd) >>)

(***************************************************************************)
(* try_remove_encryption_bits                                              *)
(***************************************************************************)
\* zipfile.local_file_header.general_purpose &= !(1 << 3), for every zip file
ClearLocal(zfs) ==
    [i \in 1..Len(zfs) |->
        [zfs[i] EXCEPT !.local_file_header.general_purpose = ClearBit3(@)]]

\* the loop over the central directory headers left out
ClearCentral_skipped(cdhs) == cdhs

\* cdh.general_purpose &= !(1 << 3), for every central directory header
ClearCentral(cdhs) ==
    [i \in 1..Len(cdhs) |-> [cdhs[i] EXCEPT !.general_purpose = ClearBit3(@)]]

try_remove_encryption_bits(data) ==
    Bind(ZipArchive_try_from(data), LAMBDA ziparchive:
      Ok(ZipArchive_to_bytes(
           [ zip_files |-> ClearLocal(ziparchive.zip_files),
             central_directory_headers |->
                 ClearCentral(ziparchive.central_directory_headers),
             eocd |-> ziparchive.eocd ])))

(***************************************************************************)
(* Input buffers.  An archive is laid out from a description: the entries  *)
(* in physical order, filler bytes before the first entry, between         *)
(* entries, before the central directory and after the EOCD comment, the   *)
(* central directory in physical or in reverse order, and amounts added to *)
(* the offset and size fields the central directory and the EOCD carry.    *)
(***************************************************************************)
MaxEntries == 2

MaxPad == 1

MaxComment == 1

MaxSmallK == 40

EdgeSpan == 4

MaxAfter == 2

Zeros(n) == [i \in 1..n |-> 0]

\* entry kinds: flags, data descriptor (with or without its signature), name,
\* extra field and data, the first four bytes of the local header and the
\* extra field of the central directory header
Plain == [gp |-> 0, dd |-> FALSE, sig |-> FALSE, name |-> <<97>>,
          extra |-> <<>>, data |-> <<17, 18>>,
          lsig |-> <<80, 75, 3, 4>>, cextra |-> <<>>]

Streamed == [gp |-> 8, dd |-> TRUE, sig |-> TRUE, name |-> <<98>>,
             extra |-> <<>>, data |-> <<19>>,
             lsig |-> <<80, 75, 3, 4>>, cextra |-> <<>>]

StreamedNoSig == [gp |-> 8, dd |-> TRUE, sig |-> FALSE, name |-> <<99, 195, 169>>,
                  extra |-> <<>>, data |-> <<>>,
                  lsig |-> <<80, 75, 3, 4>>, cextra |-> <<>>]

Encrypted == [gp |-> 2057, dd |-> TRUE, sig |-> TRUE, name |-> <<100>>,
              extra |-> <<7, 7>>, data |-> <<20>>,
              lsig |-> <<80, 75, 3, 4>>, cextra |-> <<>>]

Zip64Entry == [Plain EXCEPT !.extra = <<1, 0>>]

\* the zip64 extra field in the central directory header only
Zip64Central == [Plain EXCEPT !.cextra = <<1, 0>>]

\* a local header that does not begin with 50 4b 03 04
BadSigEntry == [Plain EXCEPT !.lsig = <<0, 1, 2, 3>>]

BadNameEntry == [Plain EXCEPT !.name = <<255>>]

GoodKinds == {Plain, Streamed, StreamedNoSig, Encrypted}

EntryBytes(e) ==
    Flatten(<< e.lsig, to_le_bytes(20, 2), to_le_bytes(e.gp, 2),
               to_le_bytes(8, 2), to_le_bytes(513, 2), to_le_bytes(1027, 2),
               to_le_bytes(IF e.dd THEN 0 ELSE 16909060, 4),
               to_le_bytes(IF e.dd THEN 0 ELSE Len(e.data), 4),
               to_le_bytes(IF e.dd THEN 0 ELSE Len(e.data) + 256, 4),
               to_le_bytes(Len(e.name), 2), to_le_bytes(Len(e.extra), 2),
               e.name, e.extra, e.data,
               IF e.dd /\ e.sig THEN <<80, 75, 7, 8>> ELSE <<>>,
               IF e.dd THEN Flatten(<< to_le_bytes(16909060, 4),
                                       to_le_bytes(Len(e.data), 4),
                                       to_le_bytes(Len(e.data) + 256, 4) >>)
               ELSE <<>> >>)

CdhBytes(e, lho, csize) ==
    Flatten(<< <<80, 75, 1, 2>>, to_le_bytes(788, 2), to_le_bytes(20, 2),
               to_le_bytes(e.gp, 2), to_le_bytes(8, 2), to_le_bytes(513, 2),
               to_le_bytes(1027, 2), to_le_bytes(16909060, 4), to_le_bytes(csize, 4),
               to_le_bytes(Len(e.data) + 256, 4), to_le_bytes(Len(e.name), 2),
               to_le_bytes(Len(e.cextra), 2), to_le_bytes(1, 2), to_le_bytes(0, 2),
               to_le_bytes(1, 2), to_le_bytes(8421504, 4), to_le_bytes(lho, 4),
               e.name, e.cextra, <<33>> >>)

EocdBytes(n, cd_size, cd_offset, comment) ==
    Flatten(<< EOCD_SIG, to_le_bytes(0, 2), to_le_bytes(0, 2), to_le_bytes(n, 2),
               to_le_bytes(n, 2), to_le_bytes(cd_size, 4), to_le_bytes(cd_offset, 4),
               to_le_bytes(Len(comment), 2), comment >>)

RECURSIVE EntryOffset(_, _, _, _)
\* the offset of entry i of the physical layout
EntryOffset(entries, prefix, gap, i) ==
    IF i = 1 THEN prefix
    ELSE EntryOffset(entries, prefix, gap, i - 1) + Len(EntryBytes(entries[i - 1])) + gap

Canonical == [fam |-> "archive", entries |-> <<>>, prefix |-> 0, gap |-> 0,
              cdgap |-> 0, trail |-> 0, rev |-> FALSE, comment |-> 0,
              cdoff_add |-> 0, cdsize_add |-> 0, lho_add |-> 0, csize_add |-> 0,
              cut |-> 0, k |-> 0]

Build(l) ==
    LET n == Len(l.entries)
        body == Flatten([i \in 1..n |->
                    EntryBytes(l.entries[i]) \o (IF i < n THEN Zeros(l.gap) ELSE <<>>)])
        files == Zeros(l.prefix) \o body \o Zeros(l.cdgap)
        order == [i \in 1..n |-> IF l.rev THEN n + 1 - i ELSE i]
        cd == Flatten([i \in 1..n |->
                    CdhBytes(l.entries[order[i]],
                             EntryOffset(l.entries, l.prefix, l.gap, order[i]) + l.lho_add,
                             Len(l.entries[order[i]].data) + l.csize_add)])
        whole == Flatten(<< files, cd,
                            EocdBytes(n, Len(cd) + l.cdsize_add,
                                      Len(files) + l.cdoff_add,
                                      [i \in 1..l.comment |-> 35]),
                            Zeros(l.trail) >>)
    IN  SubSeq(whole, 1, Len(whole) - l.cut)

\* a lone EOCD record (an empty archive) followed by k further bytes
EocdAt(l) ==
    Flatten(<< Zeros(l.prefix),
               EocdBytes(0, 0, 0, [i \in 1..l.comment |-> 0]),
               Zeros(l.k - l.comment) >>)

\* an EOCD record whose comment holds the signature again, followed by the
\* first k bytes of the rest of a record whose comment_length is l.comment
EocdTwice(l) ==
    Flatten(<< Zeros(l.prefix),
               EocdBytes(0, 0, 0,
                   EOCD_SIG \o SubSeq(Zeros(16) \o <<l.comment, 0>> \o Zeros(MaxAfter),
                                      1, l.k)) >>)

BufferOf(l) ==
    IF l.fam = "eocd" THEN EocdAt(l)
    ELSE IF l.fam = "sig2" THEN EocdTwice(l)
    ELSE Build(l)

RECURSIVE SeqsUpTo(_, _)
SeqsUpTo(S, n) ==
    IF n = 0 THEN {<<>>}
    ELSE LET shorter == SeqsUpTo(S, n - 1)
         IN  shorter \cup {Append(s, x) : s \in {t \in shorter : Len(t) = n - 1}, x \in S}

\* archives that differ from the canonical layout in one respect
Shapes ==
    {Canonical}
    \cup {[Canonical EXCEPT !.prefix = p] : p \in 1..MaxPad}
    \cup {[Canonical EXCEPT !.gap = p] : p \in 1..MaxPad}
    \cup {[Canonical EXCEPT !.cdgap = p] : p \in 1..MaxPad}
    \cup {[Canonical EXCEPT !.trail = p] : p \in 1..MaxPad}
    \cup {[Canonical EXCEPT !.rev = TRUE]}

Archives ==
    {[s EXCEPT !.entries = es, !.comment = c] :
        s \in Shapes, es \in SeqsUpTo(GoodKinds, MaxEntries), c \in 0..MaxComment}

Base == [Canonical EXCEPT !.fam = "malformed", !.entries = <<Plain, Streamed>>]

Malformed ==
    {[Base EXCEPT !.cdoff_add = 400], [Base EXCEPT !.cdsize_add = 400],
     [Base EXCEPT !.cdsize_add = -1], [Base EXCEPT !.cdoff_add = 1],
     [Base EXCEPT !.lho_add = 400], [Base EXCEPT !.lho_add = 30],
     [Base EXCEPT !.csize_add = 400], [Base EXCEPT !.csize_add = 1],
     [Base EXCEPT !.entries = <<Plain, Zip64Entry>>],
     [Base EXCEPT !.entries = <<Zip64Central, Streamed>>],
     [Base EXCEPT !.entries = <<Streamed, BadSigEntry>>],
     [Base EXCEPT !.entries = <<BadNameEntry>>]}
    \cup {[Base EXCEPT !.fam = "cut", !.entries = <<Plain>>, !.cut = c] :
            c \in 1..Len(Build([Base EXCEPT !.entries = <<Plain>>]))}

EocdScan ==
    {[Canonical EXCEPT !.fam = "eocd", !.k = k, !.comment = c, !.prefix = p] :
        k \in (1..MaxSmallK) \cup ((U16_MAX - EdgeSpan)..(U16_MAX + 3 + EdgeSpan)),
        c \in {0, 1}, p \in {0, 1}}
    \cup {[Canonical EXCEPT !.fam = "eocd", !.prefix = p] : p \in {0, 1}}

\* buffers with two signatures, the second one inside the comment of the
\* first: cut before its comment_length, with a comment_length that fits
\* and with one that does not
TwoSignatures ==
    {[Canonical EXCEPT !.fam = "sig2", !.k = k, !.comment = c, !.prefix = p] :
        k \in {0, 1, 17} \cup (18..(18 + MaxAfter)), c \in 0..(MaxAfter + 1),
        p \in {0, 1}}

Layouts == Archives \cup Malformed \cup EocdScan \cup TwoSignatures

(***************************************************************************)
(* The archive machine: one input buffer, and the zip crate's operations   *)
(* applied to it.                                                          *)
(***************************************************************************)
VARIABLES layout, input, zpc, eocd, arch, ser, arch2, strip1, strip2

\* The graph pipeline's state (described with the pipeline machine below): the
\* family being run and its file list, the run number, one task per file, the
\* store's vertex and edge documents and unique indexes, the run's error list
\* and the number of store calls that have failed.
VARIABLES family, files, run, task, nodes, edges, indexes, errors, faults

\* A function under test: the value it is given, the bytes in between (for a
\* round trip) and its result.
VARIABLES unit, upc, ubytes, ures

zipVars == <<layout, input, zpc, eocd, arch, ser, arch2, strip1, strip2>>

pipeVars == <<family, files, run, task, nodes, edges, indexes, errors, faults>>

unitVars == <<unit, upc, ubytes, ures>>

vars == <<zipVars, pipeVars, unitVars>>

\* no function is under test
UnitOff ==
    /\ unit = [fn |-> "none", dd |-> <<>>, archive |-> <<>>, data |-> <<>>]
    /\ upc = "off"
    /\ ubytes = <<>>
    /\ ures = NoResult

\* no pipeline is running
PipeOff ==
    /\ family = "none"
    /\ files = <<>>
    /\ run = 0
    /\ task = <<>>
    /\ nodes = {}
    /\ edges = {}
    /\ indexes = {}
    /\ errors = <<>>
    /\ faults = 0

Init ==
    /\ layout \in Layouts
    /\ input = BufferOf(layout)
    /\ zpc = "start"
    /\ eocd = NoResult
    /\ arch = NoResult
    /\ ser = <<>>
    /\ arch2 = NoResult
    /\ strip1 = NoResult
    /\ strip2 = NoResult
    /\ PipeOff
    /\ UnitOff

\* EOCD::try_from(input)
Locate ==
    /\ zpc = "start"
    /\ eocd' = EOCD_try_from(input)
    /\ zpc' = "located"
    /\ UNCHANGED <<layout, input, arch, ser, arch2, strip1, strip2>>
    /\ UNCHANGED <<pipeVars, unitVars>>

\* ZipArchive::try_from(input)
Parse ==
    /\ zpc = "start"
    /\ arch' = ZipArchive_try_from(input)
    /\ zpc' = "parsed"
    /\ UNCHANGED <<layout, input, eocd, ser, arch2, strip1, strip2>>
    /\ UNCHANGED <<pipeVars, unitVars>>

\* archive.to_bytes()
Serialize ==
    /\ zpc = "parsed"
    /\ arch.st = "ok"
    /\ ser' = ZipArchive_to_bytes(arch.val)
    /\ zpc' = "serialized"
    /\ UNCHANGED <<layout, input, eocd, arch, arch2, strip1, strip2>>
    /\ UNCHANGED <<pipeVars, unitVars>>

\* ZipArchive::try_from(archive.to_bytes())
Reparse ==
    /\ zpc = "serialized"
    /\ arch2' = ZipArchive_try_from(ser)
    /\ zpc' = "reparsed"
    /\ UNCHANGED <<layout, input, eocd, arch, ser, strip1, strip2>>
    /\ UNCHANGED <<pipeVars, unitVars>>

\* try_remove_encryption_bits(input)
Strip ==
    /\ zpc = "start"
    /\ strip1' = try_remove_encryption_bits(input)
    /\ zpc' = "stripped"
    /\ UNCHANGED <<layout, input, eocd, arch, ser, arch2, strip2>>
    /\ UNCHANGED <<pipeVars, unitVars>>

\* try_remove_encryption_bits applied to its own output
StripAgain ==
    /\ zpc = "stripped"
    /\ strip1.st = "ok"
    /\ strip2' = try_remove_encryption_bits(strip1.val)
    /\ zpc' = "stripped2"
    /\ UNCHANGED <<layout, input, eocd, arch, ser, arch2, strip1>>
    /\ UNCHANGED <<pipeVars, unitVars>>

Next == Locate \/ Parse \/ Serialize \/ Reparse \/ Strip \/ StripAgain

Spec == Init /\ [][Next]_vars

(***************************************************************************)
(* Properties of the archive machine                                       *)
(***************************************************************************)
\* what ZipArchive::try_from makes of the input buffer
Parsed == ZipArchive_try_from(input)

\* the archive with bit 3 of every general_purpose field cleared
Cleared(a) ==
    [ zip_files |->
        [i \in 1..Len(a.zip_files) |->
            [a.zip_files[i] EXCEPT !.local_file_header.general_purpose =
                IF (@ \div 8) % 2 = 1 THEN @ - 8 ELSE @]],
      central_directory_headers |->
        [i \in 1..Len(a.central_directory_headers) |->
            [a.central_directory_headers[i] EXCEPT !.general_purpose =
                IF (@ \div 8) % 2 = 1 THEN @ - 8 ELSE @]],
      eocd |-> a.eocd ]

\* the bytes with bit 3 of the byte at offset off cleared
Patch(bytes, off) ==
    [bytes EXCEPT ![off + 1] = IF (@ \div 8) % 2 = 1 THEN @ - 8 ELSE @]

ZipFileLen(zf) ==
    LocalFileHeader_len(zf.local_file_header) + Len(zf.file_data)
    + (IF zf.data_discriptor # <<>> THEN DataDiscriptor_len(zf.data_discriptor[1]) ELSE 0)

\* the offset, within the central directory, of its i-th header
RECURSIVE CdhStart(_, _)
CdhStart(cdhs, i) == IF i = 1 THEN 0 ELSE CdhStart(cdhs, i - 1) + CDH_len(cdhs[i - 1])

\* the offset of the EOCD record: its signature's last occurrence
EocdPos(value) ==
    CHOOSE p \in 0..(Len(value) - 4) :
        /\ Slice(value, p, p + 4) = EOCD_SIG
        /\ \A q \in (p + 1)..(Len(value) - 4) : Slice(value, q, q + 4) # EOCD_SIG

\* the records of the input, as located by the parsed archive a, copied in
\* serialization order with nothing but bit 3 of the flag fields changed
PatchedRecords(value, a) ==
    Flatten(<<
        Flatten([i \in 1..Len(a.zip_files) |->
            Patch(Slice(value, a.central_directory_headers[i].local_header_offset,
                        a.central_directory_headers[i].local_header_offset
                            + ZipFileLen(a.zip_files[i])), 6)]),
        Flatten([i \in 1..Len(a.central_directory_headers) |->
            Patch(Slice(value,
                        a.eocd.central_dir_offset
                            + CdhStart(a.central_directory_headers, i),
                        a.eocd.central_dir_offset
                            + CdhStart(a.central_directory_headers, i)
                            + CDH_len(a.central_directory_headers[i])), 8)]),
        Slice(value, EocdPos(value), EocdPos(value) + EOCD_len(a.eocd)) >>)

\* the offsets (from 1) of the low byte of every general_purpose field
FlagOffsets(a) ==
    {a.central_directory_headers[i].local_header_offset + 7 :
        i \in 1..Len(a.central_directory_headers)}
    \cup {a.eocd.central_dir_offset + CdhStart(a.central_directory_headers, i) + 9 :
        i \in 1..Len(a.central_directory_headers)}

\* the generator's own account of the stripped archive: the entries in central
\* directory order with bit 3 cleared, the headers and the EOCD with the
\* offsets and sizes they were given
StrippedLayout(l) ==
    LET n == Len(l.entries)
        order == [i \in 1..n |-> IF l.rev THEN n + 1 - i ELSE i]
        clr == [i \in 1..n |->
                  [l.entries[i] EXCEPT !.gp = IF (@ \div 8) % 2 = 1 THEN @ - 8 ELSE @]]
        body == Flatten([i \in 1..n |->
                    [EntryBytes(l.entries[order[i]]) EXCEPT ![7] = clr[order[i]].gp % 256]])
        cd == Flatten([i \in 1..n |->
                    CdhBytes(clr[order[i]],
                             EntryOffset(l.entries, l.prefix, l.gap, order[i]),
                             Len(l.entries[order[i]].data))])
        filesLen == l.prefix + l.cdgap + (IF n > 1 THEN (n - 1) * l.gap ELSE 0)
                    + Len(body)
    IN  Flatten(<< body, cd,
                   EocdBytes(n, Len(cd), filesLen, [i \in 1..l.comment |-> 35]) >>)

\* C1: for every buffer the parser accepts, the bytes to_bytes produces are
\* accepted again and parse to field-for-field identical structures, whatever
\* the layout of the buffer.
C1_RoundTrip ==
    zpc = "reparsed" => arch2.st = "ok" /\ arch2.val = arch.val

\* C2: for every accepted archive with an entry whose general-purpose bit 3 is
\* set, stripping the stripped bytes succeeds and returns them unchanged.
C2_StripIdempotent ==
    (/\ zpc = "stripped2"
     /\ \E i \in 1..Len(Parsed.val.zip_files) :
            Bit3(Parsed.val.zip_files[i].local_file_header.general_purpose))
    => strip2.st = "ok" /\ strip2.val = strip1.val

\* C3: for every accepted archive the stripped bytes have the length of the
\* input, differ from it only in bit 3 of general-purpose flag bytes, and
\* still parse, through the same offsets, to the same records.
C3_StripInPlace ==
    (zpc = "stripped" /\ strip1.st = "ok")
    => /\ Len(strip1.val) = Len(input)
       /\ \A i \in 1..Len(input) :
             strip1.val[i] # input[i]
             => i \in FlagOffsets(Parsed.val) /\ input[i] - strip1.val[i] = 8
       /\ ZipArchive_try_from(strip1.val).st = "ok"
       /\ ZipArchive_try_from(strip1.val).val = Cleared(Parsed.val)

\* C4: a buffer whose only EOCD signature begins at offset len - 22 - k: the
\* record is found for every k in 0..65536, and the lookup fails with
\* "EOCD not found" for every k > 65536.
C4_EocdScanBoundary ==
    (zpc = "located" /\ layout.fam = "eocd")
    => IF layout.k <= 65536
       THEN eocd.st = "ok" /\ eocd.val.comment_length = layout.comment
       ELSE eocd.st = "err" /\ eocd.msg = "EOCD not found"

\* C5: ZipArchive parsing and try_remove_encryption_bits return a value or an
\* error for every input buffer and never panic.
C5_NeverPanics ==
    /\ zpc = "parsed" => arch.st \in {"ok", "err"}
    /\ zpc = "stripped" => strip1.st \in {"ok", "err"}

\* C6: the stripped bytes are the records of the parsed archive in
\* serialization order (local files, central directory headers, EOCD), each
\* byte as it was in the input except bit 3 of every general_purpose field,
\* which is clear.
C6_StripClearsOnlyBit3 ==
    (zpc = "stripped" /\ strip1.st = "ok")
    => /\ strip1.val = PatchedRecords(input, Parsed.val)
       /\ layout.fam = "archive" => strip1.val = StrippedLayout(layout)

\* an archive with a set bit 3 beside other set flag bits has been stripped
C6_Witness ==
    /\ zpc = "stripped" /\ strip1.st = "ok"
    /\ layout.fam = "archive"
    /\ \E i \in 1..Len(layout.entries) : layout.entries[i] = Encrypted
    /\ \E i \in 1..Len(layout.entries) : layout.entries[i] = Plain

\* an entry of the layout carries a zip64 extra field, in its local header or
\* in its central directory header
HasZip64(es) ==
    \E i \in 1..Len(es) :
        \/ es[i].extra # <<>> /\ es[i].extra[1] = 1
        \/ es[i].cextra # <<>> /\ es[i].cextra[1] = 1

\* C16: archive parsing returns an error, never a parsed archive, for every
\* archive in which a local file header or a central directory header has an
\* extra field that begins with the zip64 marker 0x01.
C16_Zip64FailsClosed ==
    (zpc = "parsed" /\ layout.fam # "eocd" /\ HasZip64(layout.entries))
    => arch.st = "err"

\* zip file i of a parsed archive against central directory header i and the
\* bytes of the buffer
ZipFileMatches(value, cdh, zf) ==
    /\ LocalFileHeader_try_from(SliceFrom(value, cdh.local_header_offset))
         = Ok(zf.local_file_header)
    /\ zf.file_data
         = Slice(value,
                 cdh.local_header_offset + LocalFileHeader_len(zf.local_file_header),
                 cdh.local_header_offset + LocalFileHeader_len(zf.local_file_header)
                 + cdh.compressed_size)
    /\ (zf.data_discriptor # <<>>) <=> Bit3(zf.local_file_header.general_purpose)

\* zip file i of a parsed archive against the entry it was laid out from
ZipFileIsEntry(zf, e) ==
    /\ zf.local_file_header.file_name = e.name
    /\ zf.file_data = e.data
    /\ (zf.data_discriptor # <<>>) <=> e.dd

\* C18: after a successful parse zip_files is as long as, and in the order of,
\* central_directory_headers, and zip file i has the local header parsed at
\* header i's local_header_offset, header i's compressed_size bytes of data
\* right after it, and a data descriptor exactly when bit 3 of the local
\* header's flags is set; for a well-formed archive these are the entries'
\* names and data in central directory order.
C18_ZipFilesFollowDirectory ==
    (zpc = "parsed" /\ arch.st = "ok")
    => /\ Len(arch.val.zip_files) = Len(arch.val.central_directory_headers)
       /\ \A i \in 1..Len(arch.val.zip_files) :
             ZipFileMatches(input, arch.val.central_directory_headers[i],
                            arch.val.zip_files[i])
       /\ layout.fam = "archive"
          => /\ Len(arch.val.zip_files) = Len(layout.entries)
             /\ \A i \in 1..Len(layout.entries) :
                   ZipFileIsEntry(arch.val.zip_files[i],
                       layout.entries[IF layout.rev
                                      THEN Len(layout.entries) + 1 - i ELSE i])

\* a parsed archive whose central directory lists, in another order than the
\* files lie in, an entry whose local header has zero for its sizes
C18_Witness ==
    /\ zpc = "parsed" /\ arch.st = "ok"
    /\ layout.fam = "archive" /\ layout.rev
    /\ layout.entries = <<Plain, Streamed>>
    /\ arch.val.zip_files[1].local_file_header.compressed_size = 0
    /\ arch.val.central_directory_headers[1].compressed_size = 1

\* C19: a parsed archive has the local-file-header magic 50 4b 03 04 at every
\* local_header_offset of its central directory: a local header that begins
\* with other bytes is an error.
C19_LocalSignatureChecked ==
    (zpc = "parsed" /\ arch.st = "ok")
    => \A i \in 1..Len(arch.val.central_directory_headers) :
         Slice(input, arch.val.central_directory_headers[i].local_header_offset,
               arch.val.central_directory_headers[i].local_header_offset + 4)
         = <<80, 75, 3, 4>>

\* the offsets at which the EOCD signature occurs
SigOffsets(value) ==
    {i \in 0..(Len(value) - 4) : SubSeq(value, i + 1, i + 4) = EOCD_SIG}

\* the largest of a set of offsets
Last(S) == CHOOSE i \in S : \A j \in S : j <= i

\* the comment_length of the record that would start at offset pos
CommentLengthAt(value, pos) == value[pos + 21] + 256 * value[pos + 22]

\* a whole record with its comment lies at offset pos
RecordFits(value, pos) ==
    /\ pos + 22 <= Len(value)
    /\ pos + 22 + CommentLengthAt(value, pos) <= Len(value)

MaxFiles == 2

MaxRuns == 2

MaxFaults == 1

NWorkers == 2

Families == {"Coper", "Carnavalheist", "DarkWatchmen", "Mintsloader"}

digest(s) == s

Child(s, coll, attr) == [s |-> s, coll |-> coll, attr |-> attr]

\* slice::starts_with
starts_with(data, prefix) ==
    /\ Len(data) >= Len(prefix)
    /\ SubSeq(data, 1, Len(prefix)) = prefix

\* data[i]: the byte, or a panic when i is out of range
Index(data, i) == IF i < Len(data) THEN Ok(data[i + 1]) ELSE Panic

PK_MAGIC == <<80, 75>>

DEX_MAGIC == <<100, 101, 120, 10>>

ELF_MAGIC == <<127, 69, 76, 70>>

\* coper.rs detect_sample_type: the magic bytes at the start of the file
coper_detect_sample_type(sample_data) ==
    IF starts_with(sample_data, PK_MAGIC) THEN Ok("CoperAPK")
    ELSE IF starts_with(sample_data, DEX_MAGIC)
    THEN Bind(Index(sample_data, 7), LAMBDA b:
           IF b = 0 THEN Ok("CoperDEX")
           ELSE IF starts_with(sample_data, ELF_MAGIC) THEN Ok("CoperELF")
           ELSE Ok("None"))
    ELSE IF starts_with(sample_data, ELF_MAGIC) THEN Ok("CoperELF")
    ELSE Ok("None")

\* detect_elf_architecture: e_machine's low byte, read by EI_DATA
detect_elf_architecture(sample_data) ==
    Bind(Index(sample_data, 5), LAMBDA endianness:
      IF endianness \notin {1, 2} THEN Ok("none")
      ELSE Bind(Index(sample_data, IF endianness = 1 THEN 18 ELSE 19),
                LAMBDA architecture:
             Ok(CASE architecture = 3 -> "X86"
                  [] architecture = 40 -> "ArmEabiV7a"
                  [] architecture = 62 -> "X86_64"
                  [] architecture = 183 -> "Arm64V8a"
                  [] OTHER -> "none")))

\* dark_watchmen detect_sample_type: nothing under 4 bytes, a PE by 'MZ' or
\* 'PE\0\0', everything else a JS
dark_watchmen_detect_sample_type(sample_data) ==
    IF Len(sample_data) < 4 THEN "None"
    ELSE IF \/ SubSeq(sample_data, 1, 2) = <<77, 90>>
            \/ SubSeq(sample_data, 1, 4) = <<80, 69, 0, 0>>
    THEN "DarkWatchmenPE"
    ELSE "DarkWatchmenJS"

\* a member of an archive: its file name, as the directories and the
\* extension that starts_with and ends_with look at, and the sample its data is
Member(dirs, ext, s) == [dirs |-> dirs, ext |-> ext, s |-> s]

\* family: the family whose runs get the sample; bytes: the file's content;
\* decode: whether the next stage can be got at (for an APK: ZipArchive::new
\* opens it); members: the members of the archive an APK opens as.
\* type, attr, children: for Carnavalheist, detect_sample_type of the text, the
\* attribute of the node, and what the extraction yields.
\* DarkWatchmen: decode is whether get_js_from_pe_dynamically reads a dropped
\* file, next the file it reads.
\* Mintsloader: decode is whether decode_base64_with_xor_key succeeds, next
\* the text it yields; text: the markers a text contains; strings: the
\* deobfuscated strings of the sample, longest first, each as its beginning
\* and the sample of its content.
SampleTable ==
    [ a1 |-> [family |-> "Coper", bytes |-> PK_MAGIC \o <<3, 4>>,
              decode |-> "ok",
              members |-> << Member(<<"lib", "x86">>, "so", "e1"),
                             Member(<<>>, "dex", "d1"),
                             Member(<<>>, "apk", "c1") >>],
      e1 |-> [family |-> "Coper",
              bytes |-> ELF_MAGIC \o <<1, 1, 1, 0, 0, 0, 0, 0, 0, 0, 0, 0,
                                       3, 0, 40, 0>>,
              decode |-> "ok", members |-> <<>>],
      d1 |-> [family |-> "Coper", bytes |-> DEX_MAGIC \o <<48, 51, 53, 0>>,
              decode |-> "ok", members |-> <<>>],
      u1 |-> [family |-> "Coper", bytes |-> <<>>,
              decode |-> "ok", members |-> <<>>],
      c1 |-> [family |-> "Coper", bytes |-> PK_MAGIC \o <<3>>,
              decode |-> "err", members |-> <<>>],
      x1 |-> [family |-> "Coper", bytes |-> DEX_MAGIC,
              decode |-> "ok", members |-> <<>>],
      d2 |-> [family |-> "Coper", bytes |-> DEX_MAGIC \o <<48, 51, 53, 1>>,
              decode |-> "ok", members |-> <<>>],
      j0 |-> [family |-> "Coper", bytes |-> <<1, 2, 3, 4, 5, 6, 7, 0>>,
              decode |-> "ok", members |-> <<>>],
      j1 |-> [family |-> "Coper", bytes |-> <<1, 2, 3, 4, 5, 6, 7, 8>>,
              decode |-> "ok", members |-> <<>>],
      b1 |-> [family |-> "Carnavalheist", type |-> "CarnavalheistBatch",
              attr |-> "Base64", decode |-> "ok",
              children |-> << Child("p1", "CarnavalheistPs", "Normal") >>],
      b3 |-> [family |-> "Carnavalheist", type |-> "CarnavalheistBatch",
              attr |-> "Base64", decode |-> "err", children |-> <<>>],
      b4 |-> [family |-> "Carnavalheist", type |-> "CarnavalheistBatch",
              attr |-> "Command", decode |-> "ok",
              children |-> << Child("p3", "CarnavalheistPs", "Normal") >>],
      p1 |-> [family |-> "Carnavalheist", type |-> "None", attr |-> "none",
              decode |-> "ok",
              children |-> << Child("y1", "CarnavalheistPython", "none") >>],
      p3 |-> [family |-> "Carnavalheist", type |-> "None", attr |-> "none",
              decode |-> "err", children |-> <<>>],
      y1 |-> [family |-> "Carnavalheist", type |-> "CarnavalheistPython",
              attr |-> "none", decode |-> "ok", children |-> <<>>],
      w1 |-> [family |-> "DarkWatchmen", bytes |-> <<77, 90, 144, 0>>,
              decode |-> "ok", next |-> "s1"],
      w2 |-> [family |-> "DarkWatchmen", bytes |-> <<80, 69, 0, 0>>,
              decode |-> "err", next |-> ""],
      s1 |-> [family |-> "DarkWatchmen", bytes |-> <<118, 97, 114, 32>>,
              decode |-> "ok", next |-> ""],
      n1 |-> [family |-> "DarkWatchmen", bytes |-> <<77, 90>>,
              decode |-> "ok", next |-> ""],
      m1 |-> [family |-> "Mintsloader", type |-> "MintsloaderPsXorBase64",
              decode |-> "ok", next |-> "g1", text |-> {}, strings |-> <<>>],
      m3 |-> [family |-> "Mintsloader", type |-> "MintsloaderPsXorBase64",
              decode |-> "ok", next |-> "t1", text |-> {},
              strings |-> << [start |-> "MIIE", s |-> "k1"] >>],
      g1 |-> [family |-> "Mintsloader", type |-> "MintsloaderPsDgaIex",
              decode |-> "ok", next |-> "",
              text |-> {"$executioncontext;", "iex(curl",
                        "start-process powershell"},
              strings |-> <<>>],
      t1 |-> [family |-> "Mintsloader", type |-> "MintsloaderPsTwoLiner",
              decode |-> "ok", next |-> "", text |-> {}, strings |-> <<>>],
      k1 |-> [family |-> "Mintsloader", type |-> "MintsloaderX509Cert",
              decode |-> "ok", next |-> "", text |-> {}, strings |-> <<>>] ]

\* the files a run can be given
FileSamples(fam) ==
    IF fam = "Coper" THEN <<"a1", "c1", "e1", "u1", "x1">>
    ELSE IF fam = "Carnavalheist" THEN <<"b1", "b3", "b4", "y1">>
    ELSE IF fam = "DarkWatchmen" THEN <<"n1", "s1", "w1", "w2">>
    ELSE <<"m1", "m3">>

\* the directory lib/<dir>/ an ELF member lies in, as an architecture
LibArchitecture(dirs) ==
    IF Len(dirs) < 2 \/ dirs[1] # "lib" THEN "none"
    ELSE CASE dirs[2] = "armeabi-v7a" -> "ArmEabiV7a"
           [] dirs[2] = "arm64-v8a" -> "Arm64V8a"
           [] dirs[2] = "x86_64" -> "X86_64"
           [] dirs[2] = "x86" -> "X86"
           [] OTHER -> "none"

RECURSIVE extract_elfs_from_apk(_)
\* the members under lib/ that start with the ELF magic and lie in the
\* directory of a known architecture
extract_elfs_from_apk(elf_files) ==
    IF elf_files = <<>> THEN <<>>
    ELSE (IF /\ starts_with(SampleTable[Head(elf_files).s].bytes, ELF_MAGIC)
             /\ LibArchitecture(Head(elf_files).dirs) # "none"
          THEN << Child(Head(elf_files).s, "CoperELF",
                        LibArchitecture(Head(elf_files).dirs)) >>
          ELSE <<>>)
         \o extract_elfs_from_apk(Tail(elf_files))

RECURSIVE extract_dexs_from_apk(_)
\* the members named *.dex, but those that do not start with the DEX magic
\* and have a zero at index 7 ("!starts_with(..) && buff[7] == 0")
extract_dexs_from_apk(dex_files) ==
    IF dex_files = <<>> THEN Ok(<<>>)
    ELSE Bind(IF starts_with(SampleTable[Head(dex_files).s].bytes, DEX_MAGIC)
              THEN Ok(<< Child(Head(dex_files).s, "CoperDEX", "none") >>)
              ELSE Bind(Index(SampleTable[Head(dex_files).s].bytes, 7), LAMBDA b:
                     IF b = 0 THEN Ok(<<>>)
                     ELSE Ok(<< Child(Head(dex_files).s, "CoperDEX", "none") >>)),
              LAMBDA first:
           Bind(extract_dexs_from_apk(Tail(dex_files)), LAMBDA rest:
             Ok(first \o rest)))

\* the members named *.apk that start with "PK", with their names
extract_inner_apks_from_apk(apk_files) ==
    SelectSeq(apk_files, LAMBDA m: starts_with(SampleTable[m.s].bytes, PK_MAGIC))

\* ZipArchive::new(cursor) of the zip crate: whether the bytes open as an
\* archive, and its members
ZipArchive_new(s) ==
    IF SampleTable[s].decode = "ok" THEN Ok(SampleTable[s].members)
    ELSE Err("invalid Zip archive")

\* analyse_apk once the archive is open: the ELF members among the names
\* that start with "lib/" and the DEX members among those that end with
\* ".dex", and the inner APKs among those that end with ".apk"
analyse_archive(archive) ==
    Bind(extract_dexs_from_apk(SelectSeq(archive, LAMBDA m: m.ext = "dex")),
         LAMBDA dexs:
      Ok([is_cut |-> FALSE,
          apks |-> extract_inner_apks_from_apk(
                       SelectSeq(archive, LAMBDA m: m.ext = "apk")),
          kids |-> extract_elfs_from_apk(
                       SelectSeq(archive,
                           LAMBDA m: Len(m.dirs) >= 1 /\ m.dirs[1] = "lib"))
                   \o dexs]))

\* an analysis that returns the error of ZipArchive::new
analyse_apk_failing(s) ==
    IF ZipArchive_new(s).st # "ok" THEN ZipArchive_new(s)
    ELSE analyse_archive(ZipArchive_new(s).val)

\* analyse_apk: is_cut without children when the archive does not open
analyse_apk(s) ==
    IF ZipArchive_new(s).st # "ok"
    THEN Ok([is_cut |-> TRUE, apks |-> <<>>, kids |-> <<>>])
    ELSE analyse_archive(ZipArchive_new(s).val)

\* detect_sample_type of every sample, as a file of its family
Detected ==
    [s \in DOMAIN SampleTable |->
       IF SampleTable[s].family = "Coper"
       THEN (IF coper_detect_sample_type(SampleTable[s].bytes).st = "panic"
             THEN "Panic"
             ELSE coper_detect_sample_type(SampleTable[s].bytes).val)
       ELSE IF SampleTable[s].family = "DarkWatchmen"
       THEN dark_watchmen_detect_sample_type(SampleTable[s].bytes)
       ELSE SampleTable[s].type]

detect_sample_type(s) == Detected[s]

\* analyse_apk of every Coper sample
Analysed ==
    [s \in {x \in DOMAIN SampleTable : SampleTable[x].family = "Coper"} |->
       analyse_apk(s)]

\* what coper_handle_sample computes from the file before its first store
\* call: the attribute of the file's node, or a panic
Prepare(s) ==
    IF detect_sample_type(s) = "Panic" THEN Panic
    ELSE IF detect_sample_type(s) = "CoperAPK"
    THEN (IF Analysed[s].st = "panic" THEN Panic
          ELSE Ok(IF Analysed[s].st = "ok" /\ Analysed[s].val.is_cut
                  THEN "cut" ELSE "whole"))
    ELSE IF detect_sample_type(s) = "CoperELF"
    THEN detect_elf_architecture(SampleTable[s].bytes)
    ELSE IF SampleTable[s].family = "Coper" THEN Ok("none")
    ELSE IF SampleTable[s].family = "DarkWatchmen"
    THEN (IF /\ detect_sample_type(s) = "DarkWatchmenPE"
             /\ SampleTable[s].decode # "ok"
          THEN Err("No such file or directory")
          ELSE Ok("none"))
    ELSE IF SampleTable[s].family = "Mintsloader" THEN Ok("none")
    ELSE Ok(SampleTable[s].attr)

\* Prepare of every sample
Prepared == [s \in DOMAIN SampleTable |-> Prepare(s)]

\* str::contains of a text for one of the markers
contains(s, marker) == marker \in SampleTable[s].text

\* mintsloader_create_ps_xor_node: the next stage is a PS_DGA_iex when it
\* contains "$executioncontext;", else a PS_Start_Process when it contains
\* "start-process powershell", else nothing is made of it
mintsloader_next_stage(next_stage) ==
    IF contains(next_stage, "$executioncontext;")
    THEN << Child(next_stage, "MintsloaderPsDgaIex", "none") >>
    ELSE IF contains(next_stage, "start-process powershell")
    THEN << Child(next_stage, "MintsloaderPsStartProcess", "none") >>
    ELSE <<>>

\* "for i in 0..2 { if let Some(string) = strings.get(i) { .. } }": a
\* certificate for "MIIE", a code snippet for "using System"
mintsloader_strings(strings) ==
    Flatten([i \in 1..(IF Len(strings) < 2 THEN Len(strings) ELSE 2) |->
               IF strings[i].start = "MIIE"
               THEN << Child(strings[i].s, "MintsloaderX509Cert", "none") >>
               ELSE IF strings[i].start = "using System"
               THEN << Child(strings[i].s, "MintsloaderJava", "none") >>
               ELSE <<>>])

\* inner APKs handled as samples of their own
coper_inner_apks_handled(apks) ==
    [i \in DOMAIN apks |-> Child(apks[i].s, "CoperAPK", "cut")]

\* coper_create_apk_node, the loop over res.apks: the digest and the name of
\* each inner APK are printed, and nothing is made of it
coper_inner_apks(apks) == <<>>

\* the next-stage samples a node kind extracts from a sample
Extracted(s, coll) ==
    IF coll = "CoperAPK"
    THEN (IF Analysed[s].st = "ok"
          THEN Analysed[s].val.kids \o coper_inner_apks(Analysed[s].val.apks)
          ELSE <<>>)
    ELSE IF SampleTable[s].family = "Coper" \/ SampleTable[s].decode # "ok"
    THEN <<>>
    ELSE IF coll = "DarkWatchmenPE"
    THEN << Child(SampleTable[s].next, "DarkWatchmenJS", "none") >>
    ELSE IF coll = "MintsloaderPsXorBase64"
    THEN mintsloader_next_stage(SampleTable[s].next)
         \o mintsloader_strings(SampleTable[s].strings)
    ELSE IF coll = "MintsloaderPsTwoLiner"
    THEN mintsloader_strings(SampleTable[s].strings)
    ELSE SampleTable[s].children

\* the node kinds whose create function returns early when the upsert found the
\* node ("if !created { return Ok(node) }")
ShortCircuit(coll) ==
    coll \in {"CoperAPK", "CarnavalheistBatch", "CarnavalheistPs",
              "DarkWatchmenPE", "MintsloaderPsXorBase64",
              "MintsloaderPsTwoLiner"}

\* the node kinds that have a next stage to extract
HasNext(coll) ==
    coll \in {"CoperAPK", "CarnavalheistBatch", "CarnavalheistPs",
              "DarkWatchmenPE", "MintsloaderPsXorBase64",
              "MintsloaderPsTwoLiner"}

\* coper_create_apk_node calls analyse_apk before the upsert, and goes on
\* without children when the analysis failed; the Carnavalheist creators
\* extract after the upsert and return the extraction's error;
\* dark_watchmen_create_pe_node extracts before the upsert and returns the
\* extraction's error without upserting.
DecodeFirst(coll) == coll \in {"CoperAPK", "DarkWatchmenPE"}

\* handle_sample upserts an edge from the family's main node to these kinds
TopEdge(coll) ==
    coll \in {"CoperAPK", "CarnavalheistBatch", "DarkWatchmenPE",
              "MintsloaderPsXorBase64", "MintsloaderPsTwoLiner"}

\* the edge collection between two node kinds
EdgeColl(from, to) ==
    IF from = "FocusedCorpus" THEN "HasMalwareFamily"
    ELSE IF to = "CoperAPK" THEN "CoperHasAPK"
    ELSE IF to = "CoperELF" THEN "CoperHasELF"
    ELSE IF to = "CoperDEX" THEN "CoperHasDEX"
    ELSE IF to = "CarnavalheistBatch" THEN "CarnavalheistHasBatch"
    ELSE IF to = "CarnavalheistPs" THEN "CarnavalheistHasPs"
    ELSE IF to = "CarnavalheistPython" THEN "CarnavalheistHasPython"
    ELSE IF to = "DarkWatchmenPE" THEN "DarkWatchmenHasPE"
    ELSE IF to = "DarkWatchmenJS" THEN "DarkWatchmenHasJS"
    ELSE IF to = "MintsloaderPsXorBase64" THEN "MintsloaderHasPsXorBase64"
    ELSE IF to = "MintsloaderPsDgaIex" THEN "MintsloaderHasPsDgaIex"
    ELSE IF to = "MintsloaderPsStartProcess" THEN "MintsloaderHasPsStartProcess"
    ELSE IF to = "MintsloaderPsTwoLiner" THEN "MintsloaderHasPsTwoLiner"
    ELSE IF to = "MintsloaderJava" THEN "MintsloaderHasJava"
    ELSE "MintsloaderHasX509Cert"

\* the collections coper_main / carnavalheist_main put the sha256sum index on
IndexedColls(fam) ==
    IF fam = "Coper" THEN {"CoperAPK", "CoperELF", "CoperDEX"}
    ELSE IF fam = "Carnavalheist"
    THEN {"CarnavalheistBatch", "CarnavalheistPs", "CarnavalheistPython"}
    ELSE IF fam = "DarkWatchmen" THEN {"DarkWatchmenPE", "DarkWatchmenJS"}
    ELSE {"MintsloaderPsXorBase64", "MintsloaderPsDgaIex",
          "MintsloaderPsStartProcess", "MintsloaderPsTwoLiner",
          "MintsloaderJava", "MintsloaderX509Cert"}

(***************************************************************************)
(* The store (cag): documents, the unique index and the upsert calls       *)
(***************************************************************************)
\* an auto-generated _key: fresh for every insert (run r, file f, sample s)
Key(r, f, s) == [r |-> r, f |-> f, s |-> s]

NoKey == Key(0, 0, "")

\* header._id = "<collection>/<_key>"
Id(coll, key) == [coll |-> coll, key |-> key]

\* an edge key made of the to-node's id alone
EdgeKey_to_only(from, to) == <<to.coll, "-", to.key>>

\* impl_edge_attributes: _key = "<from with / as ->--<to with / as ->"
EdgeKey(from, to) == <<from.coll, "-", from.key, "--", to.coll, "-", to.key>>

NodeDoc(coll, key, sha, attr) ==
    [coll |-> coll, key |-> key, sha |-> sha, attr |-> attr]

\* rev: the writer of the document (run and file)
EdgeDoc(from, to, rev) ==
    [coll |-> EdgeColl(from.coll, to.coll), key |-> EdgeKey(from, to),
     from |-> from, to |-> to, rev |-> rev]

CorpusNode == NodeDoc("FocusedCorpus", Key(0, 0, "corpus"), "corpus", "none")

\* create_document with overwrite(true): a document with the same _key is
\* replaced, a unique index is not overridden
Overwrite(docs, doc) ==
    {d \in docs : ~(d.coll = doc.coll /\ d.key = doc.key)} \cup {doc}

\* create_vertex without the store's unique index
create_vertex_unindexed(docs, idx, doc) == Ok(Overwrite(docs, doc))

\* create_vertex: insert into the collection; the unique hash index on
\* sha256sum (ensure_index) rejects a second document with the same value
create_vertex(docs, idx, doc) ==
    IF /\ doc.coll \in idx
       /\ \E d \in docs : d.coll = doc.coll /\ d.sha = doc.sha /\ d.key # doc.key
    THEN Err("unique constraint violated")
    ELSE Ok(Overwrite(docs, doc))

\* an upsert that writes the caller's data over the stored document
upsert_payload_data(stored, data) == data

\* upsert_node on Ok(doc): "let doc = doc.document", the stored document is
\* what update_document is given; the caller's data is dropped
upsert_payload(stored, data) == stored

\* coll.update_document(key, doc)
update_document(docs, stored, doc) == (docs \ {stored}) \cup {doc}

\* get_document: the AQL query "filter d.sha256sum == @alt_val limit 1"
get_document(docs, coll, sha) == {d \in docs : d.coll = coll /\ d.sha = sha}

\* coll.document(edge_key)
edge_document(docs, coll, key) == {d \in docs : d.coll = coll /\ d.key = key}

(***************************************************************************)
(* One handle_sample call: its stack of create_*_node calls                *)
(***************************************************************************)
\* ph: the store call the frame makes next; key, created: the upsert's result;
\* i: the child being handled; ck, cc: the key and the collection of the node
\* returned for that child
NewFrame(c) ==
    [s |-> c.s, coll |-> c.coll, attr |-> c.attr, ph |-> "get", key |-> NoKey,
     created |-> FALSE, i |-> 0, ck |-> NoKey, cc |-> ""]

\* the frame of handle_sample itself: it holds the main node and has the file's
\* sample as its only child
RootFrame(fam, mainKey, s) ==
    [s |-> s, coll |-> fam, attr |-> "none", ph |-> "call", key |-> mainKey,
     created |-> TRUE, i |-> 1, ck |-> NoKey, cc |-> ""]

\* what a frame descends into
Children(f) ==
    IF f.coll \in Families
    THEN << Child(f.s, detect_sample_type(f.s), Prepared[f.s].val) >>
    ELSE IF HasNext(f.coll) THEN Extracted(f.s, f.coll)
    ELSE <<>>

Top(stack) == stack[Len(stack)]

Rest(stack) == SubSeq(stack, 1, Len(stack) - 1)

SetTop(stack, f) == [stack EXCEPT ![Len(stack)] = f]

Running(stack, ev) == [st |-> "run", stack |-> stack, msg |-> "", ev |-> ev]

Failed(msg, ev) == [st |-> "err", stack |-> <<>>, msg |-> msg, ev |-> ev]

Done(ev) == [st |-> "ok", stack |-> <<>>, msg |-> "", ev |-> ev]

Event(op, f, stack) ==
    [op |-> op, s |-> f.s, coll |-> f.coll,
     parent |-> IF Len(stack) <= 2 THEN "main" ELSE stack[Len(stack) - 1].s]

RECURSIVE Descend(_, _)
RECURSIVE Return(_, _)
\* the top frame goes on with child i, or returns its node when none is left
Descend(stack, ev) ==
    IF Top(stack).i > Len(Children(Top(stack))) THEN Return(stack, ev)
    ELSE Running(Append(stack, NewFrame(Children(Top(stack))[Top(stack).i])), ev)

\* the top frame returns Ok(node): its caller upserts the edge to the node
\* (handle_sample does for the kinds of TopEdge) and goes on
Return(stack, ev) ==
    IF Len(stack) = 1 THEN Done(ev)
    ELSE IF Top(Rest(stack)).coll \in Families /\ ~TopEdge(Top(stack).coll)
    THEN Descend(SetTop(Rest(stack),
                        [Top(Rest(stack)) EXCEPT !.i = @ + 1]), ev)
    ELSE Running(SetTop(Rest(stack),
                        [Top(Rest(stack)) EXCEPT !.ck = Top(stack).key,
                                                 !.cc = Top(stack).coll,
                                                 !.ph = "edge_get"]), ev)

\* the rest of a create_*_node function once upsert_node has returned
AfterUpsertFrame(stack, f, ev) ==
    IF ShortCircuit(f.coll) /\ ~f.created
    THEN Return(SetTop(stack, f), ev)
    ELSE IF HasNext(f.coll) /\ ~DecodeFirst(f.coll)
    THEN IF SampleTable[f.s].decode = "err"
         THEN Failed("Could not find next stage",
                     Append(ev, Event("decode", f, stack)))
         ELSE Descend(SetTop(stack, f), Append(ev, Event("decode", f, stack)))
    ELSE Descend(SetTop(stack, f), ev)

AfterUpsert(stack, key, created) ==
    AfterUpsertFrame(
        stack,
        [Top(stack) EXCEPT !.key = key, !.created = created, !.ph = "done",
                           !.i = 1],
        (IF DecodeFirst(Top(stack).coll)
         THEN << Event("decode", Top(stack), stack) >> ELSE <<>>)
        \o << Event(IF created THEN "created" ELSE "existed", Top(stack), stack) >>)

\* the caller goes on after upsert_edge has returned
AfterEdge(stack) ==
    Descend(SetTop(stack, [Top(stack) EXCEPT !.i = @ + 1, !.ph = "done"]), <<>>)

(***************************************************************************)
(* The pipeline machine: runs of one family's main function over the same  *)
(* files, each file's handle_sample call advancing one store call at a     *)
(* time on a rayon worker.                                                 *)
(***************************************************************************)
\* The file lists of a run, up to the order of the files: par_iter hands the
\* files to the workers in no particular order, so a list stands for all its
\* permutations.
FileLists(order, n) ==
    UNION { { [j \in 1..k |-> order[m[j]]] :
                m \in {l \in [1..k -> 1..Len(order)] :
                         \A j \in 1..(k - 1) : l[j] <= l[j + 1]} } :
            k \in 1..n }

NewTask(st) == [st |-> st, stack |-> <<>>, trace |-> <<>>]

ZipOff ==
    /\ layout = Canonical
    /\ input = <<>>
    /\ zpc = "off"
    /\ eocd = NoResult
    /\ arch = NoResult
    /\ ser = <<>>
    /\ arch2 = NoResult
    /\ strip1 = NoResult
    /\ strip2 = NoResult

PipeInit ==
    /\ ZipOff
    /\ UnitOff
    /\ family \in Families
    /\ files \in FileLists(FileSamples(family), MaxFiles)
    /\ run = 0
    /\ task = [i \in 1..Len(files) |-> NewTask("ok")]
    /\ nodes = {CorpusNode}
    /\ edges = {}
    /\ indexes = {}
    /\ errors = <<>>
    /\ faults = 0

Tasks == DOMAIN task

\* no call is in progress and no file is waiting: the parallel loop is over
Idle == \A i \in Tasks : task[i].st \in {"ok", "err", "panic", "skipped"}

\* the family's main node, once *_create_main_node has upserted it
MainNode == CHOOSE d \in get_document(nodes, family, family) : TRUE

\* coper_main / carnavalheist_main up to the parallel loop: the indexes, the
\* main node and its edge from the corpus node, and an empty error list
StartRun ==
    /\ run < MaxRuns
    /\ Idle
    /\ run' = run + 1
    /\ indexes' = indexes \cup IndexedColls(family) \cup {family}
    /\ nodes' = IF get_document(nodes, family, family) = {}
                THEN create_vertex(nodes, indexes',
                         NodeDoc(family, Key(run + 1, 0, family), family, "none")).val
                ELSE nodes
    /\ edges' = With(Id("FocusedCorpus", CorpusNode.key), LAMBDA from:
                With(CHOOSE d \in get_document(nodes', family, family) : TRUE,
                     LAMBDA main:
                  IF edge_document(edges, "HasMalwareFamily",
                                   EdgeKey(from, Id(family, main.key))) = {}
                  THEN create_vertex(edges, indexes',
                           EdgeDoc(from, Id(family, main.key),
                                   [r |-> run + 1, f |-> 0])).val
                  ELSE edges))
    /\ task' = [i \in Tasks |-> NewTask("todo")]
    /\ errors' = <<>>
    /\ UNCHANGED <<family, files, faults>>
    /\ UNCHANGED <<zipVars, unitVars>>

\* the outcome r of a step of file i's call: the call goes on, or it ends and
\* an error it returned is pushed on the run's error list
Finish(i, r) ==
    /\ task' = [task EXCEPT ![i] = [st |-> r.st, stack |-> r.stack,
                                    trace |-> @.trace \o r.ev]]
    /\ errors' = IF r.st = "err"
                 THEN Append(errors, [file |-> i, msg |-> r.msg])
                 ELSE errors

\* the calls of handle_sample that can be in progress at once: the files are
\* iterated with par_iter, but in dark_watchmen_main with iter
Workers(fam) == IF fam = "DarkWatchmen" THEN 1 ELSE NWorkers

\* a worker takes file i: *_handle_sample up to its first store call.  An
\* index out of range in the detectors panics in the closure of for_each: no
\* error is pushed, and the panic is raised again in the main function when
\* the loop is over.
TakeFile(i) ==
    /\ task[i].st = "todo"
    /\ Cardinality({j \in Tasks : task[j].st = "run"}) < Workers(family)
    /\ IF Prepared[files[i]].st = "panic"
       THEN /\ task' = [task EXCEPT ![i] = NewTask("panic")]
            /\ errors' = errors
       ELSE IF Prepared[files[i]].st = "err"
       THEN Finish(i, Failed(Prepared[files[i]].msg, <<>>))
       ELSE IF detect_sample_type(files[i]) = "None"
       THEN Finish(i, Failed("Sample type could not be detected", <<>>))
       ELSE Finish(i, Descend(<< RootFrame(family, MainNode.key, files[i]) >>, <<>>))
    /\ UNCHANGED <<family, files, run, nodes, edges, indexes, faults>>
    /\ UNCHANGED <<zipVars, unitVars>>

\* for_each after a closure has panicked: the items that were to follow the
\* panicking one in its part of the list are never handed to the closure
SkipFile(i) ==
    /\ task[i].st = "todo"
    /\ \E j \in Tasks : task[j].st = "panic"
    /\ task' = [task EXCEPT ![i] = NewTask("skipped")]
    /\ UNCHANGED <<family, files, run, nodes, edges, indexes, errors, faults>>
    /\ UNCHANGED <<zipVars, unitVars>>

At(i, ph) == task[i].st = "run" /\ Top(task[i].stack).ph = ph

\* upsert_node, first call: get_document (ensure_index, then the query).  On
\* Ok(doc) update_document writes the stored document back and the caller
\* goes on with created = false.
GetDocument(i) ==
    /\ At(i, "get")
    /\ indexes' = indexes \cup {Top(task[i].stack).coll}
    /\ With(get_document(nodes, Top(task[i].stack).coll,
                         digest(Top(task[i].stack).s)), LAMBDA found:
         IF found = {}
         THEN /\ nodes' = nodes
              /\ Finish(i, Running(SetTop(task[i].stack,
                     [Top(task[i].stack) EXCEPT !.ph = "create"]), <<>>))
         ELSE \E d \in found :
                /\ nodes' = update_document(nodes, d,
                       upsert_payload(d, NodeDoc(d.coll, d.key,
                           digest(Top(task[i].stack).s), Top(task[i].stack).attr)))
                /\ Finish(i, AfterUpsert(task[i].stack, d.key, FALSE)))
    /\ UNCHANGED <<family, files, run, edges, faults>>
    /\ UNCHANGED <<zipVars, unitVars>>

\* upsert_node on DocumentNotFound: create_vertex, then the caller goes on
\* with created = true
CreateVertex(i) ==
    /\ At(i, "create")
    /\ With(Top(task[i].stack), LAMBDA f:
       With(create_vertex(nodes, indexes,
                NodeDoc(f.coll, Key(run, i, f.s), digest(f.s), f.attr)), LAMBDA r:
         IF r.st = "err"
         THEN /\ nodes' = nodes
              /\ Finish(i, Failed(r.msg, << Event("conflict", f, task[i].stack) >>))
         ELSE /\ nodes' = r.val
              /\ Finish(i, AfterUpsert(task[i].stack, Key(run, i, f.s), TRUE))))
    /\ UNCHANGED <<family, files, run, edges, indexes, faults>>
    /\ UNCHANGED <<zipVars, unitVars>>

\* the edge built from the key the child's insert would get, not from the
\* node its upsert returned
CurrentEdge_unreturned(i) ==
    With(Top(task[i].stack), LAMBDA f:
      EdgeDoc(Id(f.coll, f.key), Id(f.cc, Key(run, i, Children(f)[f.i].s)),
              [r |-> run, f |-> i]))

\* the edge the top frame is upserting: from its node to its child's
CurrentEdge(i) ==
    With(Top(task[i].stack), LAMBDA f:
      EdgeDoc(Id(f.coll, f.key), Id(f.cc, f.ck), [r |-> run, f |-> i]))

\* upsert_edge, first call: coll.document(edge_key).  On Ok(doc)
\* update_document writes the stored edge back, which changes nothing.
EdgeDocument(i) ==
    /\ At(i, "edge_get")
    /\ IF edge_document(edges, CurrentEdge(i).coll, CurrentEdge(i).key) = {}
       THEN Finish(i, Running(SetTop(task[i].stack,
                [Top(task[i].stack) EXCEPT !.ph = "edge_create"]), <<>>))
       ELSE Finish(i, AfterEdge(task[i].stack))
    /\ UNCHANGED <<family, files, run, nodes, edges, indexes, faults>>
    /\ UNCHANGED <<zipVars, unitVars>>

\* upsert_edge on Err(_): create_vertex of the edge
EdgeCreate(i) ==
    /\ At(i, "edge_create")
    /\ edges' = create_vertex(edges, indexes, CurrentEdge(i)).val
    /\ Finish(i, AfterEdge(task[i].stack))
    /\ UNCHANGED <<family, files, run, nodes, indexes, faults>>
    /\ UNCHANGED <<zipVars, unitVars>>

\* the store call file i is about to make fails (connection, server).  Every
\* call returns the error to handle_sample, but coll.document in upsert_edge:
\* its Err(_) arm creates the edge.
StoreFault(i) ==
    /\ task[i].st = "run"
    /\ faults < MaxFaults
    /\ faults' = faults + 1
    /\ IF Top(task[i].stack).ph = "edge_get"
       THEN Finish(i, Running(SetTop(task[i].stack,
                [Top(task[i].stack) EXCEPT !.ph = "edge_create"]), <<>>))
       ELSE Finish(i, Failed("store error", <<>>))
    /\ UNCHANGED <<family, files, run, nodes, edges, indexes>>
    /\ UNCHANGED <<zipVars, unitVars>>

PipeNext ==
    \/ StartRun
    \/ \E i \in Tasks : TakeFile(i)
    \/ \E i \in Tasks : SkipFile(i)
    \/ \E i \in Tasks : GetDocument(i)
    \/ \E i \in Tasks : CreateVertex(i)
    \/ \E i \in Tasks : EdgeDocument(i)
    \/ \E i \in Tasks : EdgeCreate(i)
    \/ \E i \in Tasks : StoreFault(i)

PipeSpec == PipeInit /\ [][PipeNext]_vars

(***************************************************************************)
(* Properties of the pipeline machine                                      *)
(***************************************************************************)
\* a sample as a node of one kind
Art(s, coll) == [s |-> s, coll |-> coll]

\* the next-stage artifacts derivable from the bytes of the artifacts in X
KidsOf(X) ==
    UNION { {Art(Children(x)[j].s, Children(x)[j].coll) :
                j \in 1..Len(Children(x))} : x \in X }

\* a file that is classified, without a panic
Handled(s) == Prepared[s].st = "ok" /\ detect_sample_type(s) # "None"

\* the artifacts the files of a list are classified as
Tops(fl) ==
    {Art(fl[j], detect_sample_type(fl[j])) :
        j \in {k \in 1..Len(fl) : Handled(fl[k])}}

\* every artifact derivable from the files (the chains are three stages deep)
Reach(fl) == Tops(fl) \cup KidsOf(Tops(fl)) \cup KidsOf(KidsOf(Tops(fl)))

\* the parent-child pairs derivable from the files
Pairs(fl) ==
    {<<Art(family, family), t>> : t \in {u \in Tops(fl) : TopEdge(u.coll)}}
    \cup UNION { {<<x, y>> : y \in KidsOf({x})} : x \in Reach(fl) }

\* the stored nodes that carry an artifact's fingerprint
Stored(x) == get_document(nodes, x.coll, digest(x.s))

\* the stored edges from a node of x to a node of y
EdgesBetween(x, y) ==
    {e \in edges : /\ e.coll = EdgeColl(x.coll, y.coll)
                   /\ \E n \in Stored(x) : e.from = Id(n.coll, n.key)
                   /\ \E m \in Stored(y) : e.to = Id(m.coll, m.key)}

\* in the trace of a call, nothing is decoded from or upserted below an
\* artifact after its upsert has reported that the node already existed
StopsAtExisting(trace) ==
    \A k \in 1..Len(trace) :
        (trace[k].op = "existed" /\ ShortCircuit(trace[k].coll))
        => \A j \in (k + 1)..Len(trace) :
              /\ trace[j].parent # trace[k].s
              /\ ~(trace[j].op = "decode" /\ trace[j].s = trace[k].s)

\* no file is unclassifiable and every extraction the files lead to succeeds
Clean(fl) ==
    /\ \A j \in 1..Len(fl) : Handled(fl[j])
    /\ \A x \in Reach(fl) : SampleTable[x.s].decode = "ok"

\* the store as a graph over fingerprints
NodeView == {Art(n.sha, n.coll) : n \in nodes}

EdgeView ==
    { [coll |-> e.coll,
       from |-> (CHOOSE n \in nodes : Id(n.coll, n.key) = e.from).sha,
       to |-> (CHOOSE n \in nodes : Id(n.coll, n.key) = e.to).sha] : e \in edges }

\* the graph that processing the files one after the other leaves
SequentialNodes(fl) ==
    {Art("corpus", "FocusedCorpus"), Art(family, family)} \cup Reach(fl)

SequentialEdges(fl) ==
    { [coll |-> "HasMalwareFamily", from |-> "corpus", to |-> family] }
    \cup { [coll |-> EdgeColl(p[1].coll, p[2].coll),
            from |-> digest(p[1].s), to |-> digest(p[2].s)] : p \in Pairs(fl) }

\* C7: after the pipeline has run twice over the same files (no store call
\* failing), every derivable fingerprint has exactly one node and every
\* derivable parent-child pair exactly one edge, and in the second run every
\* call stops at the first node whose upsert reports that it already existed.
C7_IdempotentRerun ==
    (run = 2 /\ Idle /\ faults = 0)
    => /\ \A x \in Reach(files) : Cardinality(Stored(x)) = 1
       /\ \A p \in Pairs(files) : Cardinality(EdgesBetween(p[1], p[2])) = 1
       /\ \A i \in Tasks : StopsAtExisting(task[i].trace)

\* C8: whenever no call is in progress, every stored node of a kind whose
\* creation short-circuits has every child derivable from its bytes stored,
\* together with the edge to it.
C8_ShortCircuitSound ==
    Idle
    => \A n \in nodes :
         ShortCircuit(n.coll)
         => \A c \in KidsOf({Art(n.sha, n.coll)}) :
              \E m \in Stored(c) :
                \E e \in edges : /\ e.from = Id(n.coll, n.key)
                                 /\ e.to = Id(m.coll, m.key)

\* C9: however the calls of two workers that upsert the same new fingerprint
\* interleave, the store never holds two nodes of a collection with one
\* fingerprint nor two edges of a collection between the same two nodes, and a
\* fingerprint a call has created or collided on has exactly one node.
C9_RaceOneNode ==
    /\ \A n1, n2 \in nodes :
         (n1.coll = n2.coll /\ n1.sha = n2.sha) => n1 = n2
    /\ \A e1, e2 \in edges :
         (e1.coll = e2.coll /\ e1.from = e2.from /\ e1.to = e2.to) => e1 = e2
    /\ \A i \in Tasks : \A k \in 1..Len(task[i].trace) :
         task[i].trace[k].op \in {"created", "conflict"}
         => Cardinality(Stored(task[i].trace[k])) = 1

\* two calls have raced on one new fingerprint (one created the node, the
\* other's insert hit the unique index) and the run is over, the node having
\* an edge
C9_Witness ==
    /\ Idle
    /\ \E i, j \in Tasks : \E k \in 1..Len(task[i].trace) :
         \E l \in 1..Len(task[j].trace) :
           /\ i # j
           /\ task[i].trace[k].op = "created"
           /\ task[j].trace[l].op = "conflict"
           /\ task[j].trace[l].s = task[i].trace[k].s
           /\ \E n \in Stored(task[i].trace[k]) :
                \E e \in edges : e.to = Id(n.coll, n.key)

\* C10: a run over files that are all classifiable and decodable, in which no
\* store call fails, ends with an empty error list and with the nodes and
\* edges that processing the files one after the other leaves.
C10_RaceOnlyDuplicatesWork ==
    (run = 1 /\ Idle /\ faults = 0 /\ Clean(files))
    => /\ errors = <<>>
       /\ NodeView = SequentialNodes(files)
       /\ EdgeView = SequentialEdges(files)

\* C11: for every list of input files the main function hands every file to
\* the sample handler, a failing sample adds one entry to the error list and
\* leaves the other samples' processing alone, and the function returns Ok:
\* when the parallel loop is over every file has been handled to its end, with
\* success or with a recorded error, and none has panicked or been left out.
C11_FailuresNeverAbort ==
    (run >= 1 /\ Idle)
    => /\ \A i \in Tasks : task[i].st \in {"ok", "err"}
       /\ Len(errors) = Cardinality({i \in Tasks : task[i].st = "err"})
       /\ \A i \in Tasks : task[i].st = "err"
             => \E k \in 1..Len(errors) : errors[k].file = i

\* C12: at every point of every run each stored edge has its from-node and
\* its to-node in the store, and a call that is upserting an edge has already
\* upserted the parent and the child the edge joins.
C12_EdgeEndpointsStored ==
    /\ \A e \in edges :
         /\ \E n \in nodes : Id(n.coll, n.key) = e.from
         /\ \E n \in nodes : Id(n.coll, n.key) = e.to
    /\ \A i \in Tasks :
         (At(i, "edge_get") \/ At(i, "edge_create"))
         => /\ \E n \in nodes : Id(n.coll, n.key) = CurrentEdge(i).from
            /\ \E n \in nodes : Id(n.coll, n.key) = CurrentEdge(i).to

\* an edge from an APK node to a child that another file's call had created
C12_Witness ==
    \E e \in edges : \E n \in nodes :
        /\ e.from.coll = "CoperAPK"
        /\ Id(n.coll, n.key) = e.to
        /\ e.rev.r = n.key.r /\ e.rev.f # n.key.f

\* the (from, to) pairs of the stored edges and of the edges being upserted,
\* each with its reversed pair
EdgePairs ==
    With({<<e.from, e.to>> : e \in edges}
         \cup {<<CurrentEdge(i).from, CurrentEdge(i).to>> :
                  i \in {j \in Tasks : At(j, "edge_get") \/ At(j, "edge_create")}},
         LAMBDA P: P \cup {<<p[2], p[1]>> : p \in P})

\* C13: however often and from however many workers upsert_edge is called for
\* a (from, to) pair, the store holds at most one edge document for the pair,
\* stored under the pair's key, and two different pairs, a pair and its
\* reverse included, never have the same edge key.
C13_EdgeUpsertIdempotent ==
    /\ Cardinality({<<e.from, e.to>> : e \in edges}) = Cardinality(edges)
    /\ \A e \in edges : e.key = EdgeKey(e.from, e.to)
    /\ Cardinality({EdgeKey(p[1], p[2]) : p \in EdgePairs})
         = Cardinality(EdgePairs)

\* a call is about to create the edge of a pair whose edge another call of
\* the same run has already created
C13_Witness ==
    \E i \in Tasks :
        /\ At(i, "edge_create")
        /\ \E e \in edges : /\ e.coll = CurrentEdge(i).coll
                             /\ e.key = CurrentEdge(i).key
                             /\ e.rev.r = run /\ e.rev.f \notin {0, i}

\* the attribute value a call passed to the upsert_node of a Coper event
PassedAttr(ev) ==
    IF ev.parent = "main" THEN Prepared[ev.s].val
    ELSE (CHOOSE c \in {Extracted(ev.parent, "CoperAPK")[k] :
                           k \in 1..Len(Extracted(ev.parent, "CoperAPK"))} :
            c.s = ev.s).attr

\* C14: no step of the pipeline changes or removes a stored node: upsert_node
\* on a fingerprint that already exists leaves the node with every attribute
\* it was created with, whatever attribute values the call passed in.
C14_NodeNeverMutated ==
    [][\A n \in nodes : n \in nodes']_vars

\* an upsert has found the ELF node of a fingerprint and was passed another
\* architecture than the one the node was created with and still has
C14_Witness ==
    /\ family = "Coper"
    /\ \E i \in Tasks : \E k \in 1..Len(task[i].trace) :
         /\ task[i].trace[k].op = "existed"
         /\ task[i].trace[k].coll = "CoperELF"
         /\ \E n \in Stored(task[i].trace[k]) :
              /\ n.attr # PassedAttr(task[i].trace[k])
              /\ n.attr # "none" /\ PassedAttr(task[i].trace[k]) # "none"

RECURSIVE Walk(_)
\* a sample and everything extracted from it, in the order one call upserts
Walk(c) ==
    <<c>> \o Flatten([k \in 1..Len(Children(c)) |-> Walk(Children(c)[k])])

\* the upserts of one worker that handles the files in the order of the list
Derivations(fl) ==
    Flatten([j \in 1..Len(fl) |->
               IF Handled(fl[j])
               THEN Walk(Child(fl[j], detect_sample_type(fl[j]), Prepared[fl[j]].val))
               ELSE <<>>])

\* the nodes, with their attributes, that this worker leaves: the first
\* upsert of a fingerprint creates its node
SequentialAttrNodes(fl) ==
    {Child("corpus", "FocusedCorpus", "none"), Child(family, family, "none")}
    \cup {Derivations(fl)[k] : k \in {l \in 1..Len(Derivations(fl)) :
             \A j \in 1..(l - 1) :
                ~(/\ Derivations(fl)[j].s = Derivations(fl)[l].s
                  /\ Derivations(fl)[j].coll = Derivations(fl)[l].coll)}}

\* C15: a run over a fixed list of classifiable and decodable files from the
\* initial store, in which no store call fails, ends with the same nodes (attributes included) and edges
\* whatever the order and interleaving of the calls: those that one worker
\* handling the files in the order of the list leaves.
C15_ScheduleIndependent ==
    (/\ run = 1 /\ faults = 0 /\ Clean(files)
     /\ \A i \in Tasks : task[i].st \in {"ok", "err"})
    => /\ {Child(n.sha, n.coll, n.attr) : n \in nodes} = SequentialAttrNodes(files)
       /\ EdgeView = SequentialEdges(files)

\* the file starts with 'PK'
IsPk(s) == starts_with(SampleTable[s].bytes, PK_MAGIC)

\* the file starts with 'PK' and ZipArchive::new does not open it
IsCut(s) == IsPk(s) /\ ZipArchive_new(s).st # "ok"

\* the messages of the errors a store call returns
StoreErrors == {"store error", "unique constraint violated"}

MaxMembers == 2

\* the data descriptors: without and with the signature, and with the magic
\* as a field value
Descriptors ==
    [signature : {<<>>, <<DD_MAGIC>>},
     crc_32 : {0, 16909060, DD_MAGIC},
     compressed_size : {0, 1, 65536, DD_MAGIC},
     uncompressed_size : {0, 257, DD_MAGIC}]

\* the members an archive can have: under a lib directory of a known or an
\* unknown architecture or at the top; ELF, DEX or other data
ArchiveMembers ==
    {Member(dirs, ext, s) :
        dirs \in {<<"lib", "armeabi-v7a">>, <<"lib", "x86_64">>, <<"lib", "mips">>,
                  <<>>},
        ext \in {"so", "dex"},
        s \in {"e1", "d1", "d2", "j0", "j1", "u1", "x1"}}

NoDescriptor ==
    [signature |-> <<>>, crc_32 |-> 0, compressed_size |-> 0, uncompressed_size |-> 0]

\* e_machine values: none, the four known ones, and one that is not known
ElfMachines == {0, 3, 40, 62, 183, 8}

\* an ELF header up to e_machine: the magic, EI_CLASS, EI_DATA, and the two
\* bytes at offsets 18 and 19
ElfHeader(ei_data, m18, m19) ==
    ELF_MAGIC \o <<1, ei_data>> \o Zeros(12) \o <<m18, m19>>

\* files that pass the ELF magic check: headers whole and cut short
ElfInputs ==
    {SubSeq(ElfHeader(d, a, b), 1, n) :
        d \in 0..3, a \in ElfMachines, b \in ElfMachines,
        n \in {4, 5, 6, 18, 19, 20}}

MaxBuf == 5

\* text buffers: ASCII letters and null bytes, of every length up to MaxBuf
TextInputs == UNION {[1..n -> {0, 65}] : n \in 0..MaxBuf}

MaxTail == 4

\* files for the classifier: nothing, a magic or the beginning of one,
\* followed by up to MaxTail bytes
ClassifierInputs ==
    {p \o tl : p \in {<<>>, PK_MAGIC, DEX_MAGIC, ELF_MAGIC, <<80>>,
                       <<100, 101, 120>>},
               tl \in UNION {[1..n -> {0, 1}] : n \in 0..MaxTail}}

MaxBody == 4

\* "powershell -WindowStyle Hidden -Command \"& {"
BATCH_COMMAND_MARKER ==
    <<112, 111, 119, 101, 114, 115, 104, 101, 108, 108, 32, 45, 87, 105, 110,
      100, 111, 119, 83, 116, 121, 108, 101, 32, 72, 105, 100, 100, 101, 110,
      32, 45, 67, 111, 109, 109, 97, 110, 100, 32, 34, 38, 32, 123>>

\* the characters of a command body, as UTF-8: '{', '}', 'a' and a
\* two-byte character
BodyChars == {<<123>>, <<125>>, <<97>>, <<195, 169>>}

\* batch texts: with and without the marker, the marker at the start or
\* after a character, and a body of up to MaxBody characters
BatchTexts ==
    {pre \o mk \o Flatten(body) :
        pre \in {<<>>, <<97>>}, mk \in {BATCH_COMMAND_MARKER, <<>>},
        body \in UNION {[1..n -> BodyChars] : n \in 0..MaxBody}}

\* a byte buffer handed to the function fn
BufferInput(fn, data) ==
    [fn |-> fn, dd |-> NoDescriptor, archive |-> <<>>, data |-> data]

\* fn: the function under test; dd, archive, data: what it is given
UnitInit ==
    /\ ZipOff
    /\ PipeOff
    /\ \/ \E dd \in Descriptors :
            unit = [fn |-> "dd", dd |-> dd, archive |-> <<>>, data |-> <<>>]
       \/ \E k \in 0..MaxMembers : \E ms \in [1..k -> ArchiveMembers] :
            unit = [fn |-> "apk", dd |-> NoDescriptor, archive |-> ms,
                    data |-> <<>>]
       \/ \E data \in ElfInputs : unit = BufferInput("elf", data)
       \/ \E data \in TextInputs : unit = BufferInput("str", data)
       \/ \E data \in ClassifierInputs : unit = BufferInput("type", data)
       \/ \E data \in BatchTexts : unit = BufferInput("batch", data)
    /\ upc = "in"
    /\ ubytes = <<>>
    /\ ures = NoResult

\* dd.to_bytes()
DdToBytes ==
    /\ unit.fn = "dd" /\ upc = "in"
    /\ ubytes' = DataDiscriptor_to_bytes(unit.dd)
    /\ upc' = "bytes"
    /\ UNCHANGED <<unit, ures>>
    /\ UNCHANGED <<zipVars, pipeVars>>

\* DataDiscriptor::try_from(&bytes)
DdTryFrom ==
    /\ unit.fn = "dd" /\ upc = "bytes"
    /\ ures' = DataDiscriptor_try_from(ubytes)
    /\ upc' = "out"
    /\ UNCHANGED <<unit, ubytes>>
    /\ UNCHANGED <<zipVars, pipeVars>>

\* analyse_apk of bytes that open as the archive
AnalyseApk ==
    /\ unit.fn = "apk" /\ upc = "in"
    /\ ures' = analyse_archive(unit.archive)
    /\ upc' = "out"
    /\ UNCHANGED <<unit, ubytes>>
    /\ UNCHANGED <<zipVars, pipeVars>>

\* detect_elf_architecture(sample_data) in coper_create_elf_node
DetectElf ==
    /\ unit.fn = "elf" /\ upc = "in"
    /\ ures' = detect_elf_architecture(unit.data)
    /\ upc' = "out"
    /\ UNCHANGED <<unit, ubytes>>
    /\ UNCHANGED <<zipVars, pipeVars>>

\* the null bytes at odd offsets: "filter(|(i, e)| *i % 2 == 1 && **e == 0)"
NullsAtOdd(sample_data) ==
    Cardinality({i \in 1..Len(sample_data) :
                    (i - 1) % 2 = 1 /\ sample_data[i] = 0})

\* "(2 * count) as f32 / sample_data.len() as f32 > 0.98": 0 / 0 is NaN and
\* compares false; for the lengths of the model the f32 quotient is above
\* the f32 0.98 exactly when the exact quotient is above 98 / 100
is_utf16(sample_data) ==
    /\ Len(sample_data) > 0
    /\ 100 * (2 * NullsAtOdd(sample_data)) > 98 * Len(sample_data)

\* get_string_from_binary: the text as its encoding and code units, the
\* u16 units being from_le_bytes of the byte pairs (a last single byte is
\* dropped)
get_string_from_binary(sample_data) ==
    IF is_utf16(sample_data)
    THEN [enc |-> "utf16",
          units |-> [i \in 1..(Len(sample_data) \div 2) |->
                       sample_data[2 * i - 1] + 256 * sample_data[2 * i]]]
    ELSE [enc |-> "utf8", units |-> sample_data]

\* get_string_from_binary(sample_data)
GetString ==
    /\ unit.fn = "str" /\ upc = "in"
    /\ ures' = Ok(get_string_from_binary(unit.data))
    /\ upc' = "out"
    /\ UNCHANGED <<unit, ubytes>>
    /\ UNCHANGED <<zipVars, pipeVars>>

\* detect_sample_type(sample_data) in coper_handle_sample
DetectSampleType ==
    /\ unit.fn = "type" /\ upc = "in"
    /\ ures' = coper_detect_sample_type(unit.data)
    /\ upc' = "out"
    /\ UNCHANGED <<unit, ubytes>>
    /\ UNCHANGED <<zipVars, pipeVars>>

\* str::find: the byte offset of the first occurrence, or -1 for None
find(s, pat) ==
    IF \E i \in 0..(Len(s) - Len(pat)) : SubSeq(s, i + 1, i + Len(pat)) = pat
    THEN CHOOSE i \in 0..(Len(s) - Len(pat)) :
           /\ SubSeq(s, i + 1, i + Len(pat)) = pat
           /\ \A j \in 0..(i - 1) : SubSeq(s, j + 1, j + Len(pat)) # pat
    ELSE -1

\* str::is_char_boundary: the start, the end, or a byte that starts a
\* character; false beyond the end
is_char_boundary(s, i) ==
    \/ i = 0
    \/ i = Len(s)
    \/ i < Len(s) /\ ~Cont(s[i + 1])

\* &s[a..b]: panics when the range is not in the string or cuts a character
str_slice(s, a, b) ==
    IF a <= b /\ b <= Len(s) /\ is_char_boundary(s, a) /\ is_char_boundary(s, b)
    THEN Ok(Slice(s, a, b))
    ELSE Panic

RECURSIVE batch_command_scan(_, _, _, _)
\* the loop "while pos != 0 && end < sample_str.len()" and what follows it
batch_command_scan(sample_str, start, pos, end) ==
    IF pos # 0 /\ end < Len(sample_str)
    THEN IF ~(is_char_boundary(sample_str, end)
              /\ is_char_boundary(sample_str, end + 1))
         THEN Err("Could not find next stage in batch stage")
         ELSE batch_command_scan(sample_str, start,
                  pos + (IF sample_str[end + 1] = 123 THEN 1 ELSE 0)
                      - (IF sample_str[end + 1] = 125 THEN 1 ELSE 0),
                  end + 1)
    ELSE str_slice(sample_str, start, end - 1)

\* extract_from_batch_command: start = find(tmp)? + tmp.len() + 1
extract_from_batch_command(sample_str) ==
    IF find(sample_str, BATCH_COMMAND_MARKER) < 0
    THEN Err("Could not find next stage in batch stage")
    ELSE batch_command_scan(sample_str,
             find(sample_str, BATCH_COMMAND_MARKER)
                 + Len(BATCH_COMMAND_MARKER) + 1,
             1,
             find(sample_str, BATCH_COMMAND_MARKER)
                 + Len(BATCH_COMMAND_MARKER) + 1)

\* extract_from_batch_command(sample_str)
ExtractBatchCommand ==
    /\ unit.fn = "batch" /\ upc = "in"
    /\ ures' = extract_from_batch_command(unit.data)
    /\ upc' = "out"
    /\ UNCHANGED <<unit, ubytes>>
    /\ UNCHANGED <<zipVars, pipeVars>>

UnitNext ==
    \/ DdToBytes
    \/ DdTryFrom
    \/ AnalyseApk
    \/ DetectElf
    \/ GetString
    \/ DetectSampleType
    \/ ExtractBatchCommand

UnitSpec == UnitInit /\ [][UnitNext]_vars

\* C17: for every data descriptor x, with or without the leading signature
\* and with any field values, the magic as crc_32 included, parsing the bytes
\* of to_bytes(x) yields x: the same signature presence and the same fields.
C17_DescriptorRoundTrip ==
    (unit.fn = "dd" /\ upc = "out") => ures = Ok(unit.dd)

\* the data is a DEX file: the 'dex\n' prefix and a zero at index 7
IsDexFile(data) == starts_with(data, DEX_MAGIC) /\ Len(data) >= 8 /\ data[8] = 0

RECURSIVE ClaimedElfs(_)
\* one ELF child per member in the directory of a known architecture whose
\* data starts with the ELF magic
ClaimedElfs(archive) ==
    IF archive = <<>> THEN <<>>
    ELSE (IF /\ LibArchitecture(Head(archive).dirs) # "none"
             /\ starts_with(SampleTable[Head(archive).s].bytes, ELF_MAGIC)
          THEN << Child(Head(archive).s, "CoperELF",
                        LibArchitecture(Head(archive).dirs)) >>
          ELSE <<>>)
         \o ClaimedElfs(Tail(archive))

RECURSIVE ClaimedDexs(_)
\* one DEX child per member named *.dex whose data is a DEX file
ClaimedDexs(archive) ==
    IF archive = <<>> THEN <<>>
    ELSE (IF /\ Head(archive).ext = "dex"
             /\ IsDexFile(SampleTable[Head(archive).s].bytes)
          THEN << Child(Head(archive).s, "CoperDEX", "none") >>
          ELSE <<>>)
         \o ClaimedDexs(Tail(archive))

\* C20: the children of an APK that opens as an archive are one ELF child per
\* member under lib/armeabi-v7a/, lib/arm64-v8a/, lib/x86_64/ or lib/x86/
\* whose data starts with the ELF magic, with the directory's architecture,
\* one DEX child per member named *.dex whose data is a DEX file, and no
\* other.
C20_ApkChildren ==
    (unit.fn = "apk" /\ upc = "out")
    => /\ ures.st = "ok"
       /\ ures.val.kids = ClaimedElfs(unit.archive) \o ClaimedDexs(unit.archive)

\* the architecture of an e_machine byte
MachineArchitecture(b) ==
    CASE b = 3 -> "X86"
      [] b = 40 -> "ArmEabiV7a"
      [] b = 62 -> "X86_64"
      [] b = 183 -> "Arm64V8a"
      [] OTHER -> "none"

\* the architecture an ELF header names: the byte at offset 18 when byte 5
\* is 1 and at offset 19 when it is 2, if the file has these bytes
HeaderArchitecture(data) ==
    IF Len(data) >= 19 /\ data[6] = 1 THEN MachineArchitecture(data[19])
    ELSE IF Len(data) >= 20 /\ data[6] = 2 THEN MachineArchitecture(data[20])
    ELSE "none"

\* C22: for every file that passes the ELF magic check, of 4 bytes and more,
\* detect_elf_architecture returns the architecture its header names, or
\* none for any other machine or endianness byte, and never panics.
C22_ElfArchitecture ==
    (unit.fn = "elf" /\ upc = "out") => ures = Ok(HeaderArchitecture(unit.data))

\* strictly more than 98% of the bytes at odd offsets are null
MostlyNullAtOdd(data) ==
    100 * NullsAtOdd(data) > 98 * (Len(data) \div 2)

\* C23: get_string_from_binary reads a buffer of any length, even, odd, one
\* byte or empty, as UTF-16LE exactly when strictly more than 98% of its
\* bytes at odd offsets are null, and as UTF-8 otherwise.
C23_Utf16Heuristic ==
    (unit.fn = "str" /\ upc = "out")
    => (ures.val.enc = "utf16" <=> MostlyNullAtOdd(unit.data))

\* the first match of the chain: 'PK', then 'dex\n' with a zero at index
\* 7, then 7f 'ELF'
FirstMatch(data) ==
    IF starts_with(data, PK_MAGIC) THEN "CoperAPK"
    ELSE IF IsDexFile(data) THEN "CoperDEX"
    ELSE IF starts_with(data, ELF_MAGIC) THEN "CoperELF"
    ELSE "None"

\* C24: the Coper classifier returns, for every buffer of any length, the
\* first match of the chain APK, DEX, ELF, and None when nothing matches;
\* it never fails.
C24_ClassifierTotal ==
    (unit.fn = "type" /\ upc = "out") => ures = Ok(FirstMatch(unit.data))

RECURSIVE ClosingBrace(_, _, _)
\* the offset of the '}' that brings the nesting depth to 0, every '{' and
\* '}' from offset j on counted, or -1 when the text ends before
ClosingBrace(s, depth, j) ==
    IF j >= Len(s) THEN -1
    ELSE IF s[j + 1] = 125 /\ depth = 1 THEN j
    ELSE ClosingBrace(s, depth + (IF s[j + 1] = 123 THEN 1 ELSE 0)
                               - (IF s[j + 1] = 125 THEN 1 ELSE 0), j + 1)

\* the offset just after the marker's opening brace
BodyStart(s) == find(s, BATCH_COMMAND_MARKER) + Len(BATCH_COMMAND_MARKER)

\* C25: for every text that contains the marker, extract_from_batch_command
\* returns the text between the marker's opening brace and the '}' that
\* closes it, every brace of the body counted from depth 1; it returns an
\* error when no '}' closes it before the end of the text, and never panics.
C25_BraceExtraction ==
    (unit.fn = "batch" /\ upc = "out" /\ find(unit.data, BATCH_COMMAND_MARKER) >= 0)
    => IF ClosingBrace(unit.data, 1, BodyStart(unit.data)) < 0
       THEN ures.st = "err"
       ELSE ures = Ok(Slice(unit.data, BodyStart(unit.data),
                            ClosingBrace(unit.data, 1, BodyStart(unit.data))))

\* C26: the DEX children analyse_apk gets from extract_dexs_from_apk are
\* exactly the members named *.dex whose data starts with 'dex\n' and has a
\* zero at index 7: a member without the prefix is skipped whatever its byte
\* 7, and a member of fewer than 8 bytes is skipped without a panic.
C26_DexMembersChecked ==
    (unit.fn = "apk" /\ upc = "out")
    => /\ ures.st # "panic"
       /\ ures.st = "ok"
          => SelectSeq(ures.val.kids, LAMBDA c: c.coll = "CoperDEX")
               = ClaimedDexs(unit.archive)

\* C27: after any run of dark_watchmen_main, runs in which the extraction,
\* the upsert of the JS node or the upsert of the edge fails included, every
\* stored DarkWatchmenPE node has a DarkWatchmenHasJS edge to a stored
\* DarkWatchmenJS node.
C27_PeNeverWithoutJs ==
    (family = "DarkWatchmen" /\ run >= 1 /\ Idle)
    => \A n \in nodes :
         n.coll = "DarkWatchmenPE"
         => \E e \in edges : \E j \in nodes :
               /\ e.coll = "DarkWatchmenHasJS"
               /\ e.from = Id(n.coll, n.key)
               /\ j.coll = "DarkWatchmenJS"
               /\ e.to = Id(j.coll, j.key)

\* the next-stage edges of a node
NextStageEdges(n) ==
    {e \in edges : /\ e.from = Id(n.coll, n.key)
                   /\ e.coll \in {"MintsloaderHasPsDgaIex",
                                   "MintsloaderHasPsStartProcess"}}

\* C28: when the call that created a MintsloaderPsXorBase64 node has ended
\* without an error, the node has exactly one next-stage edge, to a
\* PsDgaIex node or to a PsStartProcess node.
C28_OneNextStage ==
    (family = "Mintsloader" /\ run >= 1)
    => \A i \in Tasks :
         (/\ task[i].st = "ok"
          /\ \E k \in 1..Len(task[i].trace) :
                /\ task[i].trace[k].op = "created"
                /\ task[i].trace[k].coll = "MintsloaderPsXorBase64")
         => \A n \in Stored(Art(files[i], "MintsloaderPsXorBase64")) :
               Cardinality(NextStageEdges(n)) = 1

(***************************************************************************)
(* The archive parser and the pipeline side by side: calls of the zip      *)
(* crate on a buffer, or runs of a family's main function over files.      *)
(***************************************************************************)
ProgramInit == Init \/ PipeInit

\* the calls of the zip crate on a buffer, the steps of a run on its files
ProgramNext ==
    \/ zpc # "off" /\ Next
    \/ family \in Families /\ PipeNext

ProgramSpec == ProgramInit /\ [][ProgramNext]_vars

\* the stages of a family's decode chain below the file's node: APK to
\* ELF/DEX, batch to PowerShell to Python, PE to JS, PS_Xor_B64 to its next
\* stage
ChainDepth(fam) == IF fam = "Carnavalheist" THEN 3 ELSE 2

RECURSIVE SumSeq(_)
SumSeq(q) == IF q = <<>> THEN 0 ELSE Head(q) + SumSeq(Tail(q))

RECURSIVE Artifacts(_, _)
\* the artifacts of the decode tree of artifact c, down to d further stages
Artifacts(c, d) ==
    IF d = 0 THEN 1
    ELSE 1 + SumSeq([k \in DOMAIN Children(c) |->
                       Artifacts(Children(c)[k], d - 1)])

\* the artifacts of the decode tree of every sample, as a file of its family
FileArtifacts ==
    [s \in DOMAIN SampleTable |->
       IF Detected[s] \in {"None", "Panic"} THEN 0
       ELSE Artifacts(Child(s, Detected[s], "none"),
                      ChainDepth(SampleTable[s].family) - 1)]

\* the upsert_node calls file i's call has made in this run
NodeUpserts(i) ==
    Cardinality({k \in 1..Len(task[i].trace) :
                   task[i].trace[k].op \in {"created", "existed", "conflict"}})

\* the edges file i's call has written in this run
EdgesWritten(i) == {e \in edges : e.rev = [r |-> run, f |-> i]}

\* the offset of central directory header i in the central directory
CdhOffset(cdhs, i) == SumSeq([j \in 1..(i - 1) |-> CDH_len(cdhs[j])])

====
